---- MODULE Spec2Model ----
(***************************************************************************)
(* EmbyFixer: the backup / replace / restore engine of src/utils.py, the   *)
(* process supervisor of src/core/process_manager.py and src/state.py, and *)
(* the session state of src/core/state_manager.py, as state machines.      *)
(*                                                                         *)
(* Spec      the engine: whole calls of backup_original_ffmpeg,            *)
(*           replace_ffmpeg_binaries and restore_original_ffmpeg on one    *)
(*           installation, each with at most one injected I/O failure.     *)
(* ConcSpec  the same calls run by two request threads that interleave     *)
(*           between file operations.                                      *)
(* ProcSpec  threads calling ProcessManager's run_process, stop_process,   *)
(*           get_state and is_running, with the lock and the children.     *)
(* SessSpec  the handlers and StateManager calls of one server session,    *)
(*           one at a time, with the snapshot directories and the clock.   *)
(* DictSpec  the functions of src/utils.py that return a result dict:      *)
(*           create_backup, restore_from_backup,                           *)
(*           create_initial_state_backup and restore_initial_state.        *)
(* ForceSpec the test mode: /api/force-test-mode in front of               *)
(*           force_single_architecture, with the engine's calls.           *)
(* ReadSpec  the read operations of StateManager among the snapshot calls. *)
(* ArchSpec  get_system_architecture, get_ffmpeg_architecture and          *)
(*           /api/check-compatibility on a host and binaries of any kind.  *)
(* LocateSpec find_ffmpeg_binaries on an installation tree of any layout.  *)
(* AppSpec   threads calling AppState (src/state.py), one lock operation   *)
(*           at a time; AppLiveSpec adds fair scheduling.                  *)
(* OrderSpec threads calling StateManager and ProcessManager, one lock     *)
(*           operation at a time; OrderLiveSpec adds fair scheduling.      *)
(***************************************************************************)
EXTENDS Integers, Sequences, FiniteSets, TLC

(***************************************************************************)
(* Files.  A file is its content and its owner-executable bit; Absent is   *)
(* the path that does not exist.                                           *)
(***************************************************************************)

\* The loop order of every per-binary loop (src/utils.py:241, 288, 336).
Binaries == <<"ffmpeg", "ffprobe", "ffdetect">>

BinSet == {Binaries[i] : i \in 1..Len(Binaries)}

Archs == {"x86_64", "arm64"}

Absent == [c |-> <<"absent">>, x |-> FALSE]

Exists(f) == f # Absent

\* What a copy that failed after opening its destination leaves behind.
Truncated == [c |-> <<"truncated">>, x |-> FALSE]

\* Binary b as shipped in an installation built for architecture a.
OriginalFile(a, b) == [c |-> <<"original", a, b>>, x |-> TRUE]

\* ffmpeg_binaries/<target_arch>/<binary>: the replacement asset.
ReplacementFile(a, b) == [c |-> <<"replacement", a, b>>, x |-> FALSE]

\* shutil.copy2: content and permission bits of the source.
copy2(src) == src

\* os.chmod(dst, 0o755)
chmod755(f) == [f EXCEPT !.x = TRUE]

(***************************************************************************)
(* Injected failures.  A call meets at most one: `op` at binary `at`, in   *)
(* stage `stage` of the call ("backup": inside backup_original_ffmpeg,     *)
(* "main": the call's own loop).                                           *)
(*   unreadable  os.access(src, R_OK) is false                             *)
(*   nosrc       the source file of the copy does not exist               *)
(*   remove      os.remove(dst) raises OSError                             *)
(*   copy        shutil.copy2 raises OSError, nothing written              *)
(*   trunc       shutil.copy2 raises OSError, destination truncated        *)
(*               (injected into the backup copy)                           *)
(*   chmod       os.chmod raises OSError                                   *)
(*   exc         shutil.copy2 raises an Exception that is no OSError       *)
(*   mkdir       os.makedirs raises OSError (at = "dir")                   *)
(*   nowrite     os.access(<directory>, os.W_OK) is false (at = "dir")     *)
(*   noassets    ffmpeg_binaries/<target_arch> does not exist (at = "dir") *)
(***************************************************************************)
NoFault == [stage |-> "none", at |-> "none", op |-> "none"]

BackupFaultOps == {"unreadable", "copy", "trunc", "chmod", "exc"}

MainFaultOps == {"unreadable", "nosrc", "remove", "copy", "chmod", "exc"}

BackupFaults ==
    {[stage |-> "backup", at |-> b, op |-> o] : b \in BinSet, o \in BackupFaultOps}
    \cup {[stage |-> "backup", at |-> "dir", op |-> o] : o \in {"mkdir", "nowrite"}}

MainFaults ==
    {[stage |-> "main", at |-> b, op |-> o] : b \in BinSet, o \in MainFaultOps}
    \cup {[stage |-> "main", at |-> "dir", op |-> o] : o \in {"nowrite", "noassets"}}

\* The failures restore_original_ffmpeg can meet.
RestoreFaults == {f \in MainFaults : f.op \notin {"nosrc", "noassets"}}

Hits(f, stage, b, op) == f.stage = stage /\ f.at = b /\ f.op = op

(***************************************************************************)
(* The file system of one installation:                                    *)
(*   inst     <ffmpeg_path>/<binary>                                       *)
(*   bakdir   <parent>/ffmpeg_backup_original exists                       *)
(*   bak      <parent>/ffmpeg_backup_original/<binary>                     *)
(*   tdir     <parent>/ffmpeg_test exists                                  *)
(*   tmark    <parent>/ffmpeg_test/test_mode: "absent", "empty", or the    *)
(*            architecture written into it                                 *)
(*   legacy   which of <parent>/ffmpeg_test_mode and                       *)
(*            <parent>/ffmpeg_architecture exist                           *)
(* orig holds the binaries as installed, last and prev the two most recent *)
(* calls and their results.                                                *)
(***************************************************************************)
VARIABLES fs, orig, last, prev

(***************************************************************************)
(* Request threads running the engine's calls one file operation at a time *)
(* (ConcSpec):                                                             *)
(*   th    per thread: the call it runs, where it is in it, the loop       *)
(*         index, and what the call returned                               *)
(*   seen  what the last /api/check-backup answered: has_backup, and       *)
(*         whether the directory it looked at held every required binary   *)
(***************************************************************************)
VARIABLES th, seen

(***************************************************************************)
(* ProcessManager (src/core/process_manager.py) and its callers            *)
(* (ProcSpec):                                                             *)
(*   lock             the thread inside "with self._lock", or "free"       *)
(*   is_running       self._is_running                                     *)
(*   current_process  self._current_process: the child, named by the       *)
(*                    thread that spawned it, or "None"                    *)
(*   alive            the children that have not exited                    *)
(*   pt               per thread: the call it is in, where, what it        *)
(*                    returned, the children alive when it was invoked,    *)
(*                    and the child a stop_process call terminated         *)
(***************************************************************************)
VARIABLES lock, is_running, current_process, alive, pt

(***************************************************************************)
(* StateManager (src/core/state_manager.py), the directories next to the   *)
(* installation and the handlers of src/app.py (SessSpec):                 *)
(*   main_app_running            self._main_app_running                    *)
(*   initial_state_backup_dir    self._initial_state_backup_dir: the       *)
(*                               timestamp in the recorded name, 0 = None  *)
(*   tree       the content of the installation tree emby_path             *)
(*   snaps      content of emby_initial_backup_<ts>, per timestamp         *)
(*   bkps       content of emby_backup_<ts>, per timestamp                 *)
(*   clock      datetime.now() to the second                               *)
(*   slast      the most recent call and its result                        *)
(***************************************************************************)
VARIABLES main_app_running, initial_state_backup_dir, tree, snaps, bkps,
          clock, slast

(***************************************************************************)
(* The result-dict functions of src/utils.py and their directories         *)
(* (DictSpec):                                                             *)
(*   dfs    the installed binaries (inst), whether ffmpeg_backup exists    *)
(*          (bdir) and its files (bak); whether INITIAL_STATE_BACKUP_DIR   *)
(*          is set (iref), whether the directory it names exists (idir)    *)
(*          and that directory's files (isnap)                             *)
(*   dlast  the most recent call: its name and how it ended                *)
(***************************************************************************)
VARIABLES dfs, dlast

(***************************************************************************)
(* The inputs of the functions that only read (ArchSpec, LocateSpec):      *)
(*   machine  platform.machine()                                           *)
(*   probe    per binary, what get_ffmpeg_architecture can observe of it   *)
(*   dirtag   the architecture name in the path of the binaries directory  *)
(*   layout   the installation tree find_ffmpeg_binaries looks at          *)
(*   plast    the most recent call of such a function and what it returned *)
(***************************************************************************)
VARIABLES machine, probe, dirtag, layout, plast

(***************************************************************************)
(* Threads calling the lock-protected objects one lock operation at a time *)
(* (AppSpec, OrderSpec):                                                   *)
(*   app        the fields of AppState (src/state.py): lock is the thread  *)
(*              inside "with self._lock" or "free", then is_running,       *)
(*              current_process, main_app_running, initialized             *)
(*   app_alive  the children spawned through AppState that have not exited *)
(*   sm_lock    StateManager._lock: the thread that holds it, or "free"    *)
(*   ct         per thread: the method calls it is in, outermost first,    *)
(*              each with the step its body is at; the argument of the     *)
(*              outermost; where the thread is; what the call returned     *)
(***************************************************************************)
VARIABLES app, app_alive, sm_lock, ct

engineVars == <<fs, orig, last, prev>>

lockVars == <<app, app_alive, sm_lock, ct>>

concVars == <<th, seen>>

pmVars == <<lock, is_running, current_process, alive>>

procVars == <<pmVars, pt>>

sessVars == <<main_app_running, initial_state_backup_dir, tree, snaps, bkps,
              clock, slast>>

dictVars == <<dfs, dlast>>

pureVars == <<machine, probe, dirtag, layout, plast>>

\* What the calls of one specification leave alone.
outsideFiles == <<procVars, sessVars, dictVars, pureVars, lockVars>>

outsideProc == <<engineVars, concVars, sessVars, dictVars, pureVars, lockVars>>

outsideSess == <<engineVars, concVars, dictVars, pureVars, lockVars>>

outsideDict == <<engineVars, concVars, procVars, sessVars, pureVars, lockVars>>

outsidePure == <<engineVars, concVars, procVars, sessVars, dictVars, lockVars>>

outsideApp == <<engineVars, concVars, procVars, sessVars, dictVars, pureVars>>

vars == <<engineVars, concVars, procVars, sessVars, dictVars, pureVars,
          lockVars>>

\* find_ffmpeg_binaries: the directory is found iff it holds all three names.
find_ffmpeg_binaries(f) == \A b \in BinSet : Exists(f.inst[b])

\* One iteration of the loop of backup_original_ffmpeg.
BackupStep(f, b, flt) ==
    LET src == f.inst[b] IN
    IF ~Exists(src) THEN [fs |-> f, r |-> "Tuple"]
    ELSE IF Hits(flt, "backup", b, "unreadable") THEN [fs |-> f, r |-> "Tuple"]
    ELSE IF Hits(flt, "backup", b, "copy") THEN [fs |-> f, r |-> "Tuple"]
    ELSE IF Hits(flt, "backup", b, "trunc")
         THEN [fs |-> [f EXCEPT !.bak[b] = Truncated], r |-> "Tuple"]
    ELSE IF Hits(flt, "backup", b, "exc") THEN [fs |-> f, r |-> "False"]
    ELSE IF Hits(flt, "backup", b, "chmod")
         THEN [fs |-> [f EXCEPT !.bak[b] = copy2(src)], r |-> "Tuple"]
    ELSE [fs |-> [f EXCEPT !.bak[b] = chmod755(copy2(src))], r |-> "ok"]

RECURSIVE BackupLoop(_, _, _)
BackupLoop(f, i, flt) ==
    IF i > Len(Binaries) THEN [fs |-> f, r |-> "True"]
    ELSE LET s == BackupStep(f, Binaries[i], flt) IN
         IF s.r # "ok" THEN s ELSE BackupLoop(s.fs, i + 1, flt)

\* backup_original_ffmpeg(ffmpeg_path).  r is what the call returns: "True",
\* "False", or "Tuple" for the pair (False, message).
backup_original_ffmpeg(f, flt) ==
    IF Hits(flt, "backup", "dir", "nowrite") THEN [fs |-> f, r |-> "Tuple"]
    ELSE IF f.bakdir THEN [fs |-> f, r |-> "True"]
    ELSE IF Hits(flt, "backup", "dir", "mkdir") THEN [fs |-> f, r |-> "Tuple"]
    ELSE BackupLoop([f EXCEPT !.bakdir = TRUE], 1, flt)

\* Python truth of a returned value: a non-empty tuple is true.
Truthy(r) == r # "False"

(***************************************************************************)
(* replace_ffmpeg_binaries(emby_path, target_arch): the "fix" operation.   *)
(***************************************************************************)

\* One iteration of the replacement loop.  r is "ok" or the failure's name.
ReplaceStep(f, b, a, flt) ==
    LET src == ReplacementFile(a, b)
        removed == [f EXCEPT !.inst[b] = Absent]
    IN
    IF Hits(flt, "main", b, "nosrc") THEN [fs |-> f, r |-> "ReplacementMissing"]
    ELSE IF Hits(flt, "main", b, "unreadable") THEN [fs |-> f, r |-> "Unreadable"]
    ELSE IF Exists(f.inst[b]) /\ Hits(flt, "main", b, "remove")
         THEN [fs |-> f, r |-> "RemoveFailed"]
    ELSE IF Hits(flt, "main", b, "copy") THEN [fs |-> removed, r |-> "CopyFailed"]
    ELSE IF Hits(flt, "main", b, "exc") THEN [fs |-> removed, r |-> "Exception"]
    ELSE IF Hits(flt, "main", b, "chmod")
         THEN [fs |-> [f EXCEPT !.inst[b] = copy2(src)], r |-> "CopyFailed"]
    ELSE [fs |-> [f EXCEPT !.inst[b] = chmod755(copy2(src))], r |-> "ok"]

RECURSIVE ReplaceLoop(_, _, _, _)
ReplaceLoop(f, i, a, flt) ==
    IF i > Len(Binaries) THEN [fs |-> f, r |-> "ok"]
    ELSE LET s == ReplaceStep(f, Binaries[i], a, flt) IN
         IF s.r # "ok" THEN s ELSE ReplaceLoop(s.fs, i + 1, a, flt)

\* A variant that looks for the replacement directory only after it has
\* removed the first installed binary.
replace_ffmpeg_binaries_LateAssetCheck(f, a, flt) ==
    IF ~find_ffmpeg_binaries(f)
    THEN [fs |-> f, ok |-> FALSE, err |-> "BinariesNotFound", bk |-> "NotCalled"]
    ELSE IF Hits(flt, "main", "dir", "nowrite")
    THEN [fs |-> f, ok |-> FALSE, err |-> "NoWritePermission", bk |-> "NotCalled"]
    ELSE LET b == backup_original_ffmpeg(f, flt) IN
         IF ~Truthy(b.r)
         THEN [fs |-> b.fs, ok |-> FALSE, err |-> "BackupFailed", bk |-> b.r]
         ELSE IF Hits(flt, "main", "dir", "noassets")
         THEN [fs |-> [b.fs EXCEPT !.inst[Binaries[1]] = Absent], ok |-> FALSE,
               err |-> "NoReplacement", bk |-> b.r]
         ELSE LET l == ReplaceLoop(b.fs, 1, a, flt) IN
              [fs |-> l.fs, ok |-> (l.r = "ok"), err |-> l.r, bk |-> b.r]

\* The whole call.  ok: the first component of the returned pair; err: which
\* return statement was taken; bk: what backup_original_ffmpeg returned
\* ("NotCalled" when the call returned before it).
replace_ffmpeg_binaries(f, a, flt) ==
    IF ~find_ffmpeg_binaries(f)
    THEN [fs |-> f, ok |-> FALSE, err |-> "BinariesNotFound", bk |-> "NotCalled"]
    ELSE IF Hits(flt, "main", "dir", "nowrite")
    THEN [fs |-> f, ok |-> FALSE, err |-> "NoWritePermission", bk |-> "NotCalled"]
    ELSE LET b == backup_original_ffmpeg(f, flt) IN
         IF ~Truthy(b.r)
         THEN [fs |-> b.fs, ok |-> FALSE, err |-> "BackupFailed", bk |-> b.r]
         ELSE IF Hits(flt, "main", "dir", "noassets")
         THEN [fs |-> b.fs, ok |-> FALSE, err |-> "NoReplacement", bk |-> b.r]
         ELSE LET l == ReplaceLoop(b.fs, 1, a, flt) IN
              [fs |-> l.fs, ok |-> (l.r = "ok"), err |-> l.r, bk |-> b.r]

(***************************************************************************)
(* restore_original_ffmpeg(emby_path)                                      *)
(***************************************************************************)

\* RestoreStep with the copy forgotten: the installed binary is removed and
\* nothing is put in its place.
RestoreStep_NoCopy(f, b, flt) ==
    IF ~Exists(f.bak[b]) THEN [fs |-> f, r |-> "BackupIncomplete"]
    ELSE [fs |-> [f EXCEPT !.inst[b] = Absent], r |-> "ok"]

\* One iteration of the restore loop.
RestoreStep(f, b, flt) ==
    LET src == f.bak[b]
        removed == [f EXCEPT !.inst[b] = Absent]
    IN
    IF ~Exists(src) THEN [fs |-> f, r |-> "BackupIncomplete"]
    ELSE IF Hits(flt, "main", b, "unreadable") THEN [fs |-> f, r |-> "Unreadable"]
    ELSE IF Exists(f.inst[b]) /\ Hits(flt, "main", b, "remove")
         THEN [fs |-> f, r |-> "RemoveFailed"]
    ELSE IF Hits(flt, "main", b, "copy") THEN [fs |-> removed, r |-> "CopyFailed"]
    ELSE IF Hits(flt, "main", b, "exc") THEN [fs |-> removed, r |-> "Exception"]
    ELSE IF Hits(flt, "main", b, "chmod")
         THEN [fs |-> [f EXCEPT !.inst[b] = copy2(src)], r |-> "CopyFailed"]
    ELSE [fs |-> [f EXCEPT !.inst[b] = chmod755(copy2(src))], r |-> "ok"]

RECURSIVE RestoreLoop(_, _, _)
RestoreLoop(f, i, flt) ==
    IF i > Len(Binaries) THEN [fs |-> f, r |-> "ok"]
    ELSE LET s == RestoreStep(f, Binaries[i], flt) IN
         IF s.r # "ok" THEN s ELSE RestoreLoop(s.fs, i + 1, flt)

\* The marker files restore removes after its loop (src/utils.py:363-373):
\* <parent>/ffmpeg_test_mode and <parent>/ffmpeg_architecture.
LegacyMarkers == {"ffmpeg_test_mode", "ffmpeg_architecture"}

CleanTestFiles(f) == [f EXCEPT !.legacy = f.legacy \ LegacyMarkers]

restore_original_ffmpeg(f, flt) ==
    IF ~find_ffmpeg_binaries(f)
    THEN [fs |-> f, ok |-> FALSE, err |-> "BinariesNotFound"]
    ELSE IF Hits(flt, "main", "dir", "nowrite")
    THEN [fs |-> f, ok |-> FALSE, err |-> "NoWritePermission"]
    ELSE IF ~f.bakdir
    THEN [fs |-> f, ok |-> FALSE, err |-> "NoBackup"]
    ELSE LET l == RestoreLoop(f, 1, flt) IN
         IF l.r # "ok" THEN [fs |-> l.fs, ok |-> FALSE, err |-> l.r]
         ELSE [fs |-> CleanTestFiles(l.fs), ok |-> TRUE, err |-> "ok"]

(***************************************************************************)
(* force_single_architecture (src/utils.py:380-466).  The stand-ins of     *)
(* test_resources/<target_arch> are scripts that print "Bad CPU type in    *)
(* executable" and exit 1.  What one call can meet (at most one of):       *)
(*   testdir, bakdir    os.makedirs raises (outside the try: it escapes)   *)
(*   bakcopy            shutil.copy2 raises in the inline backup           *)
(*   noassets, nosrc    the asset directory or one stand-in is missing     *)
(*   copy               copying the stand-in in raises                     *)
(*   deviates           the stand-in runs and does not exit 1 with the     *)
(*                      mismatch text                                      *)
(*   oserror            subprocess.run raises                              *)
(*   markopen, markwrite  open() or write() of the marker raises           *)
(***************************************************************************)
StandIn(a, b) == [c |-> <<"standin", a, b>>, x |-> FALSE]

ForceFaults ==
    {[stage |-> "force", at |-> b, op |-> o] : b \in BinSet,
       o \in {"bakcopy", "nosrc", "copy", "deviates", "oserror"}}
    \cup {[stage |-> "force", at |-> "dir", op |-> o] :
            o \in {"testdir", "bakdir", "noassets", "markopen", "markwrite"}}

\* The inline backup: copy2 of every binary that exists, no chmod.
RECURSIVE ForceBackupLoop(_, _, _)
ForceBackupLoop(f, i, flt) ==
    IF i > Len(Binaries) THEN [fs |-> f, r |-> "ok"]
    ELSE LET b == Binaries[i] IN
         IF ~Exists(f.inst[b]) THEN ForceBackupLoop(f, i + 1, flt)
         ELSE IF Hits(flt, "force", b, "bakcopy") THEN [fs |-> f, r |-> "raised"]
         ELSE ForceBackupLoop([f EXCEPT !.bak[b] = copy2(f.inst[b])], i + 1, flt)

ForceBackup(f, flt) ==
    IF f.bakdir THEN [fs |-> f, r |-> "ok"]
    ELSE IF Hits(flt, "force", "dir", "bakdir") THEN [fs |-> f, r |-> "raised"]
    ELSE ForceBackupLoop([f EXCEPT !.bakdir = TRUE], 1, flt)

\* A variant that goes on after a stand-in that did not fail as expected.
ForceStep_Unverified(f, b, a, flt) ==
    LET put == [f EXCEPT !.inst[b] = chmod755(copy2(StandIn(a, b)))] IN
    IF Hits(flt, "force", b, "nosrc") THEN [fs |-> f, r |-> "Error", passed |-> FALSE]
    ELSE IF Hits(flt, "force", b, "copy") THEN [fs |-> f, r |-> "Error", passed |-> FALSE]
    ELSE IF Hits(flt, "force", b, "oserror") THEN [fs |-> put, r |-> "Error", passed |-> FALSE]
    ELSE IF Hits(flt, "force", b, "deviates") THEN [fs |-> put, r |-> "ok", passed |-> FALSE]
    ELSE [fs |-> put, r |-> "ok", passed |-> TRUE]

\* One iteration of the loop that installs and runs the stand-ins.  passed:
\* the stand-in was run and exited 1 with the mismatch text.
ForceStep(f, b, a, flt) ==
    LET put == [f EXCEPT !.inst[b] = chmod755(copy2(StandIn(a, b)))] IN
    IF Hits(flt, "force", b, "nosrc") THEN [fs |-> f, r |-> "Error", passed |-> FALSE]
    ELSE IF Hits(flt, "force", b, "copy") THEN [fs |-> f, r |-> "Error", passed |-> FALSE]
    ELSE IF Hits(flt, "force", b, "oserror") THEN [fs |-> put, r |-> "Error", passed |-> FALSE]
    ELSE IF Hits(flt, "force", b, "deviates") THEN [fs |-> put, r |-> "Error", passed |-> FALSE]
    ELSE [fs |-> put, r |-> "ok", passed |-> TRUE]

\* ran: the stand-ins that were run and failed as expected.
RECURSIVE ForceLoop(_, _, _, _, _)
ForceLoop(f, i, a, flt, ran) ==
    IF i > Len(Binaries) THEN [fs |-> f, r |-> "ok", ran |-> ran]
    ELSE LET s == ForceStep(f, Binaries[i], a, flt) IN
         IF s.r # "ok" THEN [fs |-> s.fs, r |-> s.r, ran |-> ran]
         ELSE ForceLoop(s.fs, i + 1, a, flt,
                        IF s.passed THEN ran \cup {Binaries[i]} ELSE ran)

\* force_single_architecture(ffmpeg_path, target_arch) on an existing
\* ffmpeg_path.  res: "Success", "Error" (a message is returned) or
\* "raised" (an exception leaves the function).
force_single_architecture(f, a, flt) ==
    IF Hits(flt, "force", "dir", "testdir")
    THEN [fs |-> f, res |-> "raised", ran |-> {}]
    ELSE
    LET t == [f EXCEPT !.tdir = TRUE]
        k == ForceBackup(t, flt)
    IN  IF k.r # "ok" THEN [fs |-> k.fs, res |-> "raised", ran |-> {}]
        ELSE IF Hits(flt, "force", "dir", "noassets")
        THEN [fs |-> k.fs, res |-> "Error", ran |-> {}]
        ELSE
        LET l == ForceLoop(k.fs, 1, a, flt, {}) IN
        IF l.r # "ok" THEN [fs |-> l.fs, res |-> "Error", ran |-> l.ran]
        ELSE IF Hits(flt, "force", "dir", "markopen")
        THEN [fs |-> l.fs, res |-> "Error", ran |-> l.ran]
        ELSE IF Hits(flt, "force", "dir", "markwrite")
        THEN [fs |-> [l.fs EXCEPT !.tmark = "empty"], res |-> "Error",
              ran |-> l.ran]
        ELSE [fs |-> [l.fs EXCEPT !.tmark = a], res |-> "Success",
              ran |-> l.ran]

(***************************************************************************)
(* PathTags: the architecture names that can occur in the path of the      *)
(* binaries directory.                                                     *)
(*                                                                         *)
(* get_ffmpeg_architecture (src/utils.py:122-219).  Per binary: a stand-in *)
(* script is recognised by its text and given the architecture named in    *)
(* the directory path, if any; otherwise the output of file(1), which      *)
(* holds the path and the description, is searched for "arm64", then       *)
(* "x86_64"; otherwise the binary is run, and a stand-in's failure is      *)
(* again given the architecture named in the path.                         *)
(***************************************************************************)
PathTags == {"none", "arm64", "x86_64"}

\* platform.machine() of the host: the target_arch that fix is called with.
HostArch == "arm64"

\* What the detection can observe of one binary:
\*   missing  the file does not exist
\*   standin  a script holding the two texts of a test binary; run, it
\*            fails with "Bad CPU type in executable"
\*   arm64, x86_64  the description printed by file(1) holds that name
\*   runs     file(1) names neither; "<binary> -version" exits 0
\*   badcpu   file(1) names neither; the run fails with "bad cpu type in
\*            executable" in stderr or in the exception's message
\*   rc8      file(1) names neither; the run exits 8
\*   fails    file(1) names neither; the run fails otherwise or times out
Observations ==
    {"missing", "standin", "arm64", "x86_64", "runs", "badcpu", "rc8", "fails"}

\* One iteration of the loop of get_ffmpeg_architecture: what it adds to
\* architectures.  tag is the architecture name in os.path.dirname of the
\* binary (also part of the output of file(1), which prints the path), host
\* what get_system_architecture() returns.
BinaryArch(obs, tag, host) ==
    IF obs = "missing" THEN {}
    ELSE IF obs = "standin" THEN (IF tag = "none" THEN {} ELSE {tag})
    ELSE IF tag = "arm64" \/ obs = "arm64" THEN {"arm64"}
    ELSE IF tag = "x86_64" \/ obs = "x86_64" THEN {"x86_64"}
    ELSE IF obs = "runs" THEN {host}
    ELSE {}

\* What the detection observes of a file of the installation.
Observation(file) ==
    IF ~Exists(file) THEN "missing"
    ELSE IF file.c[1] = "standin" THEN "standin"
    ELSE IF file.c[1] = "truncated" THEN "fails"
    ELSE file.c[2]

FileArch(file, tag) == BinaryArch(Observation(file), tag, HostArch)

DetectedArchs(f, tag) == UNION {FileArch(f.inst[b], tag) : b \in BinSet}

\* list(architectures)[0], or None for the empty set.  The order in which a
\* set of strings is listed follows their hashes, which differ from one
\* interpreter run to the next: of two names either can be the first.
ReturnValues(architectures) ==
    IF architectures = {} THEN {"None"} ELSE architectures

\* The values the call can return for a binaries directory whose path holds
\* the architecture name tag.
get_ffmpeg_architecture(f, tag) == ReturnValues(DetectedArchs(f, tag))

(***************************************************************************)
(* The engine's state machine.  last records the most recent call: which,  *)
(* whether a failure was injected into it, whether the backup directory    *)
(* existed when it began, and what it returned; prev is the call before.   *)
(***************************************************************************)
NoCall ==
    [op |-> "none", clean |-> TRUE, hadBak |-> FALSE, ok |-> FALSE,
     err |-> "none", bk |-> "NotCalled", arch |-> "none", ran |-> {}]

\* clean: no failure was injected into the call.
Call(op, flt, pre, ok, err, bk) ==
    [op |-> op, clean |-> (flt = NoFault), hadBak |-> pre.bakdir, ok |-> ok,
     err |-> err, bk |-> bk, arch |-> "none", ran |-> {}]

\* What prev keeps of a call.
Brief(c) == [op |-> c.op, ok |-> c.ok, hadBak |-> c.hadBak]

\* The answers /api/check-compatibility can give for an installation whose
\* path holds the architecture name tag.
check_compatibility(f, tag) ==
    IF ~find_ffmpeg_binaries(f)
    THEN {[success |-> FALSE, compatible |-> FALSE]}
    ELSE {IF v = "None"
          THEN [success |-> FALSE, compatible |-> FALSE]
          ELSE [success |-> TRUE, compatible |-> (v = HostArch)]
            : v \in get_ffmpeg_architecture(f, tag)}

(***************************************************************************)
(* The functions that only read, on inputs of any kind.                    *)
(***************************************************************************)

\* Values of platform.machine(): the two names the code knows, three
\* synonyms of them, a machine of neither kind, and the empty string of a
\* platform that cannot tell.
Machines == {"x86_64", "arm64", "AMD64", "i386", "aarch64", "riscv64", ""}

\* The machine strings that name one of the two architectures.
Recognized == {"x86_64", "arm64", "AMD64", "i386", "aarch64"}

get_system_architecture(arch) ==
    IF arch = "x86_64" THEN "x86_64"
    ELSE IF arch = "arm64" THEN "arm64"
    ELSE arch

\* architectures at the end of the loop of get_ffmpeg_architecture.
Architectures(p, tag, m) ==
    UNION {BinaryArch(p[b], tag, get_system_architecture(m)) : b \in BinSet}

\* /api/check-compatibility on an existing path: the answers it can give.
\* find_ffmpeg_binaries wants all three binaries to exist.
CheckAnswers(m, p, tag) ==
    LET system_arch == get_system_architecture(m)
        failed == [ret |-> "None", success |-> FALSE, compatible |-> FALSE]
    IN  IF system_arch = "" THEN {failed}
        ELSE IF \E b \in BinSet : p[b] = "missing" THEN {failed}
        ELSE {IF v \in {"None", ""} THEN failed
              ELSE [ret |-> v, success |-> TRUE,
                    compatible |-> (system_arch = v)]
                : v \in ReturnValues(Architectures(p, tag, m))}

\* The candidate directories of find_ffmpeg_binaries, in the order tried.
Candidates == <<"Contents/MacOS", "ffmpeg", "System/ffmpeg">>

\* What a candidate directory holds: nothing of the binaries, ffmpeg but
\* not all three, or all three.
Holdings == {"empty", "primary", "full"}

\* An installation tree: whether emby_path exists (root) and ends in ".app"
\* (app), what each candidate directory holds (cand), and whether some
\* other directory below emby_path holds ffmpeg (deep).  The binaries in it
\* are executable.
Layouts ==
    {l \in [root : BOOLEAN, app : BOOLEAN,
            cand : [1..Len(Candidates) -> Holdings], deep : BOOLEAN] :
        ~l.root => ~l.deep /\ \A i \in 1..Len(Candidates) : l.cand[i] = "empty"}

\* The directories below emby_path that hold ffmpeg.
ContainingDirs(l) ==
    {Candidates[i] : i \in {j \in 1..Len(Candidates) : l.cand[j] # "empty"}}
    \cup (IF l.deep THEN {"elsewhere"} ELSE {})

\* The path of the file ffmpeg in directory d.
PrimaryIn(d) == <<d, "ffmpeg">>

RECURSIVE FirstFull(_, _)
FirstFull(l, i) ==
    IF i > Len(Candidates) THEN "None"
    ELSE IF l.cand[i] = "full" THEN Candidates[i]
    ELSE FirstFull(l, i + 1)

\* find_ffmpeg_binaries(emby_path): the directory returned, or "None".
find_ffmpeg_binaries_path(l) ==
    IF ~l.root THEN "None" ELSE FirstFull(l, 1)

\* find_ffmpeg_binaries(emby_path) of src/core/utils.py: the values it can
\* return.  It answers for ".app" paths only, and returns the path of the
\* file ffmpeg: the one in Contents/MacOS if there is one (the other paths
\* it tries first lie in directories this tree knows as "elsewhere"), else
\* the first that os.walk meets, in the order the file system lists them.
core_find_ffmpeg_binaries(l) ==
    IF ~l.app THEN {"None"}
    ELSE IF l.cand[1] # "empty" THEN {PrimaryIn(Candidates[1])}
    ELSE IF ContainingDirs(l) = {} THEN {"None"}
    ELSE {PrimaryIn(d) : d \in ContainingDirs(l)}

NoPureCall ==
    [op |-> "none", ret |-> "none", success |-> FALSE, compatible |-> FALSE]

PureCall(op, ret) ==
    [op |-> op, ret |-> ret, success |-> TRUE, compatible |-> FALSE]

\* The inputs outside ArchSpec and LocateSpec: an arm64 host and an
\* installation of arm64 binaries in Contents/MacOS.
DefaultLayout ==
    [root |-> TRUE, app |-> TRUE, cand |-> [i \in 1..Len(Candidates) |->
                                 IF i = 1 THEN "full" ELSE "empty"],
     deep |-> FALSE]

NoPureInputs ==
    /\ machine = HostArch
    /\ probe = [b \in BinSet |-> HostArch]
    /\ dirtag = "none"
    /\ layout = DefaultLayout
    /\ plast = NoPureCall

\* An installation before any call: the binaries of one architecture, no
\* backup directory, no ffmpeg_test directory (tdir) and no marker in it
\* (tmark), and the markers of legacy next to it.
Installation(a, legacy) ==
    [inst |-> [b \in BinSet |-> OriginalFile(a, b)],
     bakdir |-> FALSE,
     bak |-> [b \in BinSet |-> Absent],
     tdir |-> FALSE,
     tmark |-> "absent",
     legacy |-> legacy]

InitFS == {Installation(a, {}) : a \in Archs}

Threads == {"t1", "t2"}

Idle == [op |-> "idle", pc |-> "idle", i |-> 0, ret |-> "none"]

NotSeen == [has |-> FALSE, complete |-> FALSE]

\* A thread that has not called ProcessManager yet.
NotCalling == [op |-> "idle", pc |-> "idle", ret |-> "none", inv |-> {},
               stopped |-> "None"]

\* The installation tree: a copy stopped half-way leaves "partial".
Contents == {"v1", "v2", "partial"}

MaxClock == 2

Seconds == 1..MaxClock

NoSessCall == [op |-> "none", ok |-> FALSE, path |-> FALSE]

NoDictCall == [op |-> "none", res |-> "none"]

\* An installation with no ffmpeg_backup directory next to it.
NoDictBackup ==
    [inst |-> [b \in BinSet |-> OriginalFile(HostArch, b)], bdir |-> FALSE,
     bak |-> [b \in BinSet |-> Absent],
     iref |-> FALSE, idir |-> FALSE, isnap |-> [b \in BinSet |-> Absent]]

\* AppState.__init__.
NewAppState ==
    [lock |-> "free", is_running |-> FALSE, current_process |-> "None",
     main_app_running |-> FALSE, initialized |-> FALSE]

\* A thread that is in no call of a lock-protected object.
NoFrames == [stack |-> <<>>, arg |-> FALSE, pc |-> "idle", ret |-> "none"]

\* Everything but the installation fs and the ffmpeg_backup directory dfs.
InitRest ==
    /\ app = NewAppState
    /\ app_alive = {}
    /\ sm_lock = "free"
    /\ ct = [t \in Threads |-> NoFrames]
    /\ orig = fs.inst
    /\ last = NoCall
    /\ prev = Brief(NoCall)
    /\ th = [t \in Threads |-> Idle]
    /\ seen = NotSeen
    /\ lock = "free"
    /\ is_running = FALSE
    /\ current_process = "None"
    /\ alive = {}
    /\ pt = [t \in Threads |-> NotCalling]
    /\ main_app_running = FALSE
    /\ initial_state_backup_dir = 0
    /\ tree = "v1"
    /\ snaps = [ts \in Seconds |-> "absent"]
    /\ bkps = [ts \in Seconds |-> "absent"]
    /\ clock = 1
    /\ slast = NoSessCall

Init ==
    /\ fs \in InitFS
    /\ InitRest
    /\ dfs = NoDictBackup
    /\ dlast = NoDictCall
    /\ NoPureInputs

\* create: backup_original_ffmpeg called on the binaries directory.  A failure
\* is injected only where the call meets it.
CreateWith(faults) ==
    \E flt \in faults :
        \E r \in {backup_original_ffmpeg(fs, flt)} :
        /\ flt # NoFault => r # backup_original_ffmpeg(fs, NoFault)
        /\ fs' = r.fs
        /\ last' = Call("create", flt, fs, r.r = "True", r.r, r.r)
        /\ prev' = Brief(last)
        /\ UNCHANGED <<orig, concVars, outsideFiles>>

\* fix: replace_ffmpeg_binaries with the host's architecture.
FixWith(faults) ==
    \E flt \in faults :
        \E r \in {replace_ffmpeg_binaries(fs, HostArch, flt)} :
        /\ flt # NoFault => r # replace_ffmpeg_binaries(fs, HostArch, NoFault)
        /\ fs' = r.fs
        /\ last' = Call("fix", flt, fs, r.ok, r.err, r.bk)
        /\ prev' = Brief(last)
        /\ UNCHANGED <<orig, concVars, outsideFiles>>

\* restore: restore_original_ffmpeg.
RestoreWith(faults) ==
    \E flt \in faults :
        \E r \in {restore_original_ffmpeg(fs, flt)} :
        /\ flt # NoFault => r # restore_original_ffmpeg(fs, NoFault)
        /\ fs' = r.fs
        /\ last' = Call("restore", flt, fs, r.ok, r.err, "NotCalled")
        /\ prev' = Brief(last)
        /\ UNCHANGED <<orig, concVars, outsideFiles>>

Create == CreateWith(BackupFaults \cup {NoFault})

Fix == FixWith(BackupFaults \cup MainFaults \cup {NoFault})

Restore == RestoreWith(RestoreFaults \cup {NoFault})

Next == Create \/ Fix \/ Restore

Spec == Init /\ [][Next]_vars

(***************************************************************************)
(* ConcSpec: the same calls, run by request threads that interleave        *)
(* between file operations.  No failure is injected.  A thread's pc:       *)
(*   b_check  backup_original_ffmpeg before os.path.exists(backup_dir)     *)
(*   b_mkdir  before os.makedirs(backup_dir)                               *)
(*   b_copy   before iteration i of the backup loop                        *)
(*   f_copy   before iteration i of the replacement loop                   *)
(*   r_copy   before iteration i of the restore loop                       *)
(*   done     the call has returned ret                                    *)
(***************************************************************************)
At(t, op, pc) == th[t].op = op /\ th[t].pc = pc

Goto(t, pc, i) == th' = [th EXCEPT ![t].pc = pc, ![t].i = i]

Return(t, ret) == th' = [th EXCEPT ![t].pc = "done", ![t].i = 0, ![t].ret = ret]

\* A thread that is in no call begins create (backup_original_ffmpeg).
CreateCall(t) ==
    /\ th[t].pc \in {"idle", "done"}
    /\ th' = [th EXCEPT ![t] = [op |-> "create", pc |-> "b_check", i |-> 0, ret |-> "none"]]
    /\ UNCHANGED <<engineVars, seen, outsideFiles>>

\* replace_ffmpeg_binaries up to its call of backup_original_ffmpeg.
FixCall(t) ==
    /\ th[t].pc \in {"idle", "done"}
    /\ th' = [th EXCEPT ![t] =
                 IF find_ffmpeg_binaries(fs)
                 THEN [op |-> "fix", pc |-> "b_check", i |-> 0, ret |-> "none"]
                 ELSE [op |-> "fix", pc |-> "done", i |-> 0, ret |-> "BinariesNotFound"]]
    /\ UNCHANGED <<engineVars, seen, outsideFiles>>

\* backup_original_ffmpeg: if os.path.exists(backup_dir): return True
BackupCheck(t) ==
    /\ th[t].pc = "b_check"
    /\ IF ~fs.bakdir THEN Goto(t, "b_mkdir", 0)
       ELSE IF th[t].op = "fix" THEN Goto(t, "f_copy", 1)
       ELSE Return(t, "True")
    /\ UNCHANGED <<engineVars, seen, outsideFiles>>

\* os.makedirs(backup_dir, mode=0o755, exist_ok=True)
BackupMkdir(t) ==
    /\ th[t].pc = "b_mkdir"
    /\ fs' = [fs EXCEPT !.bakdir = TRUE]
    /\ Goto(t, "b_copy", 1)
    /\ UNCHANGED <<orig, last, prev, seen, outsideFiles>>

\* One iteration of the backup loop; after the last the call returns True,
\* and fix goes on to its replacement loop.
BackupCopy(t) ==
    /\ th[t].pc = "b_copy"
    /\ \E s \in {BackupStep(fs, Binaries[th[t].i], NoFault)} :
          /\ fs' = s.fs
          /\ IF s.r # "ok" THEN
                 IF th[t].op = "fix" THEN Goto(t, "f_copy", 1) ELSE Return(t, s.r)
             ELSE IF th[t].i < Len(Binaries) THEN Goto(t, "b_copy", th[t].i + 1)
             ELSE IF th[t].op = "fix" THEN Goto(t, "f_copy", 1)
             ELSE Return(t, "True")
    /\ UNCHANGED <<orig, last, prev, seen, outsideFiles>>

\* One iteration of the replacement loop of fix.
FixCopy(t) ==
    /\ At(t, "fix", "f_copy")
    /\ \E s \in {ReplaceStep(fs, Binaries[th[t].i], HostArch, NoFault)} :
          /\ fs' = s.fs
          /\ IF s.r # "ok" THEN Return(t, s.r)
             ELSE IF th[t].i < Len(Binaries) THEN Goto(t, "f_copy", th[t].i + 1)
             ELSE Return(t, "ok")
    /\ UNCHANGED <<orig, last, prev, seen, outsideFiles>>

\* restore_original_ffmpeg up to its loop.
RestoreCall(t) ==
    /\ th[t].pc \in {"idle", "done"}
    /\ th' = [th EXCEPT ![t] =
                 IF ~find_ffmpeg_binaries(fs)
                 THEN [op |-> "restore", pc |-> "done", i |-> 0, ret |-> "BinariesNotFound"]
                 ELSE IF ~fs.bakdir
                 THEN [op |-> "restore", pc |-> "done", i |-> 0, ret |-> "NoBackup"]
                 ELSE [op |-> "restore", pc |-> "r_copy", i |-> 1, ret |-> "none"]]
    /\ UNCHANGED <<engineVars, seen, outsideFiles>>

\* One iteration of the restore loop.
RestoreCopy(t) ==
    /\ At(t, "restore", "r_copy")
    /\ \E s \in {RestoreStep(fs, Binaries[th[t].i], NoFault)} :
          /\ fs' = s.fs
          /\ IF s.r # "ok" THEN Return(t, s.r)
             ELSE IF th[t].i < Len(Binaries) THEN Goto(t, "r_copy", th[t].i + 1)
             ELSE Return(t, "ok")
    /\ UNCHANGED <<orig, last, prev, seen, outsideFiles>>

\* /api/check-backup: has_backup = os.path.exists(backup_dir).
check_backup ==
    /\ seen' = [has |-> fs.bakdir,
                complete |-> \A b \in BinSet : Exists(fs.bak[b])]
    /\ UNCHANGED <<engineVars, th, outsideFiles>>

ConcNext ==
    \/ \E t \in Threads :
          \/ CreateCall(t) \/ FixCall(t) \/ RestoreCall(t)
          \/ BackupCheck(t) \/ BackupMkdir(t) \/ BackupCopy(t)
          \/ FixCopy(t) \/ RestoreCopy(t)
    \/ check_backup

ConcSpec == Init /\ [][ConcNext]_vars

(***************************************************************************)
(* ProcSpec: threads calling the ProcessManager.  Every method body is     *)
(* "with self._lock:", so a call is: the invocation, the wait for the      *)
(* lock, the body.  run_process keeps the lock while it waits for its      *)
(* child.  A thread's pc:                                                  *)
(*   want  the call is made and waits for the lock                         *)
(*   wait  run_process: inside self._current_process.wait()                *)
(*   done  the call returned ret (or raised, ret = "raised")               *)
(***************************************************************************)
Invoke(t, op) ==
    /\ pt[t].pc \in {"idle", "done"}
    /\ pt' = [pt EXCEPT ![t] = [op |-> op, pc |-> "want", ret |-> "none",
                                inv |-> alive, stopped |-> "None"]]
    /\ UNCHANGED <<pmVars, outsideProc>>

Returns(t, ret) == pt' = [pt EXCEPT ![t].pc = "done", ![t].ret = ret]

\* A variant that spawns without looking at is_running and without keeping
\* the lock while the child runs.
RunBody_Unguarded(t) ==
    /\ pt[t].op = "run" /\ pt[t].pc = "want"
    /\ lock = "free"
    /\ current_process' = t
    /\ is_running' = TRUE
    /\ alive' = alive \cup {t}
    /\ lock' = lock
    /\ pt' = [pt EXCEPT ![t].pc = "wait"]
    /\ UNCHANGED outsideProc

\* run_process up to wait(): the early return, Popen raising, or the spawn.
RunBody(t) ==
    /\ pt[t].op = "run" /\ pt[t].pc = "want"
    /\ lock = "free"
    /\ \/ /\ is_running
          /\ Returns(t, "None")
          /\ UNCHANGED pmVars
       \/ /\ ~is_running
          /\ Returns(t, "raised")
          /\ current_process' = "None"
          /\ is_running' = FALSE
          /\ UNCHANGED <<lock, alive>>
       \/ /\ ~is_running
          /\ current_process' = t
          /\ is_running' = TRUE
          /\ alive' = alive \cup {t}
          /\ lock' = t
          /\ pt' = [pt EXCEPT ![t].pc = "wait"]
    /\ UNCHANGED outsideProc

\* The child exits by itself.
ChildExit(c) ==
    /\ c \in alive
    /\ alive' = alive \ {c}
    /\ UNCHANGED <<lock, is_running, current_process, pt>>
    /\ UNCHANGED outsideProc

\* A variant that leaves the handle of the reaped child in the field.
RunWaitReturns_KeepsHandle(t) ==
    /\ pt[t].op = "run" /\ pt[t].pc = "wait"
    /\ t \notin alive
    /\ current_process' = current_process
    /\ is_running' = FALSE
    /\ lock' = "free"
    /\ Returns(t, "code")
    /\ UNCHANGED <<alive, outsideProc>>

\* wait() returns once the child has exited; run_process clears its fields,
\* leaves the lock and returns the exit code.
RunWaitReturns(t) ==
    /\ pt[t].op = "run" /\ pt[t].pc = "wait"
    /\ t \notin alive
    /\ current_process' = "None"
    /\ is_running' = FALSE
    /\ lock' = "free"
    /\ Returns(t, "code")
    /\ UNCHANGED <<alive, outsideProc>>

\* A variant that reports False when there is nothing to stop.
stop_process_FalseWhenIdle(t) ==
    /\ pt[t].op = "stop" /\ pt[t].pc = "want"
    /\ lock = "free"
    /\ alive' = IF current_process # "None" THEN alive \ {current_process}
                ELSE alive
    /\ current_process' = "None"
    /\ is_running' = FALSE
    /\ pt' = [pt EXCEPT ![t].pc = "done",
                        ![t].ret = IF current_process = "None" THEN "False"
                                   ELSE "True",
                        ![t].stopped = current_process]
    /\ UNCHANGED <<lock, outsideProc>>

\* The body of stop_process: terminate, wait(timeout=5), kill on timeout.
\* Either way the tracked child is gone when the body ends.
stop_process(t) ==
    /\ pt[t].op = "stop" /\ pt[t].pc = "want"
    /\ lock = "free"
    /\ alive' = IF current_process # "None" THEN alive \ {current_process}
                ELSE alive
    /\ current_process' = "None"
    /\ is_running' = FALSE
    /\ pt' = [pt EXCEPT ![t].pc = "done", ![t].ret = "True",
                        ![t].stopped = current_process]
    /\ UNCHANGED <<lock, outsideProc>>

\* The body of get_state: poll() the tracked child, report is_running.
get_state(t) ==
    /\ pt[t].op = "get" /\ pt[t].pc = "want"
    /\ lock = "free"
    /\ \E gone \in {current_process # "None" /\ current_process \notin alive} :
          /\ is_running' = IF gone THEN FALSE ELSE is_running
          /\ current_process' = IF gone THEN "None" ELSE current_process
          /\ Returns(t, IF is_running' THEN "running" ELSE "not running")
    /\ UNCHANGED <<lock, alive, outsideProc>>

\* The body of the property is_running: poll() the tracked child, return
\* the flag.
is_running_property(t) ==
    /\ pt[t].op = "is_running" /\ pt[t].pc = "want"
    /\ lock = "free"
    /\ \E gone \in {current_process # "None" /\ current_process \notin alive} :
          /\ is_running' = IF gone THEN FALSE ELSE is_running
          /\ current_process' = IF gone THEN "None" ELSE current_process
          /\ Returns(t, IF is_running' THEN "running" ELSE "not running")
    /\ UNCHANGED <<lock, alive, outsideProc>>

ProcNext ==
    \E t \in Threads :
        \/ \E op \in {"run", "stop", "get", "is_running"} : Invoke(t, op)
        \/ is_running_property(t)
        \/ RunBody(t)
        \/ ChildExit(t)
        \/ RunWaitReturns(t)
        \/ stop_process(t)
        \/ get_state(t)

\* The supervisor does not read the installation: one installation is enough.
OneInstallation == fs = Installation(HostArch, {})

ProcInit == Init /\ OneInstallation

ProcSpec == ProcInit /\ [][ProcNext]_vars

(***************************************************************************)
(* SessSpec: one server session.  The server of src/app.py handles one     *)
(* request at a time (app.run(threaded=False), src/app.py:727-733), so a   *)
(* handler or a StateManager call is one step.                             *)
(*                                                                         *)
(* kill_existing_flask (src/app.py:71-78) is pkill -9 -f "python.*app.py". *)
(* main() runs it before it serves (src/app.py:712), so a server that      *)
(* handles a request has a command line the pattern does not match, and    *)
(* the handlers' calls of it leave this server's state alone.              *)
(***************************************************************************)
CopyFaults == {"none", "early", "mid"}

\* shutil.copytree(src, dst): fails if src is missing or dst exists; an
\* I/O failure leaves nothing (early) or part of the tree (mid).
copytree(src, dst, flt) ==
    IF src = "absent" \/ dst # "absent" \/ flt = "early"
    THEN [ok |-> FALSE, dst |-> dst]
    ELSE IF flt = "mid" THEN [ok |-> FALSE, dst |-> "partial"]
    ELSE [ok |-> TRUE, dst |-> src]

SessCall(op, ok, path) == [op |-> op, ok |-> ok, path |-> path]

\* The second ticks over.
Tick ==
    /\ clock < MaxClock
    /\ clock' = clock + 1
    /\ UNCHANGED <<main_app_running, initial_state_backup_dir, tree, snaps,
                   bkps, slast>>
    /\ UNCHANGED <<procVars, outsideSess>>

\* The installation changes under emby_path (a fix replaces its binaries).
Modify ==
    /\ tree = "v1"
    /\ tree' = "v2"
    /\ slast' = SessCall("modify", TRUE, TRUE)
    /\ UNCHANGED <<main_app_running, initial_state_backup_dir, snaps, bkps,
                   clock>>
    /\ UNCHANGED <<procVars, outsideSess>>

\* Someone removes a snapshot directory from the disk.
Vanish ==
    \E ts \in Seconds :
        /\ snaps[ts] # "absent"
        /\ snaps' = [snaps EXCEPT ![ts] = "absent"]
        /\ slast' = SessCall("vanish", TRUE, TRUE)
        /\ UNCHANGED <<main_app_running, initial_state_backup_dir, tree, bkps,
                       clock>>
        /\ UNCHANGED <<procVars, outsideSess>>

\* core/utils.py create_backup: copytree into emby_backup_<timestamp>.
create_backup ==
    \E flt \in CopyFaults : \E r \in {copytree(tree, bkps[clock], flt)} :
        /\ flt # "none" => r # copytree(tree, bkps[clock], "none")
        /\ bkps' = [bkps EXCEPT ![clock] = r.dst]
        /\ slast' = SessCall("create_backup", r.ok, TRUE)
        /\ UNCHANGED <<main_app_running, initial_state_backup_dir, tree, snaps,
                       clock>>
        /\ UNCHANGED <<procVars, outsideSess>>

\* core/utils.py restore_from_backup(backup_dir, emby_path).
restore_from_backup ==
    \E ts \in Seconds, flt \in CopyFaults :
      \E r \in {copytree(bkps[ts], "absent", flt)} :
        /\ flt # "none" => r # copytree(bkps[ts], "absent", "none")
        /\ tree' = r.dst
        /\ slast' = SessCall("restore_from_backup", r.ok, TRUE)
        /\ UNCHANGED <<main_app_running, initial_state_backup_dir, snaps, bkps,
                       clock>>
        /\ UNCHANGED <<procVars, outsideSess>>

\* A variant that records the directory name before the copy is made.
RecordedSnapshot_BeforeCopy(r) == clock

\* The reference after create_initial_state_backup: the assignment stands
\* after copytree, so an exception of copytree skips it.
RecordedSnapshot(r) == IF r.ok THEN clock ELSE initial_state_backup_dir

\* StateManager.create_initial_state_backup.
create_initial_state_backup ==
    \E flt \in CopyFaults : \E r \in {copytree(tree, snaps[clock], flt)} :
        /\ flt # "none" => r # copytree(tree, snaps[clock], "none")
        /\ snaps' = [snaps EXCEPT ![clock] = r.dst]
        /\ initial_state_backup_dir' = RecordedSnapshot(r)
        /\ slast' = SessCall("create_initial_state_backup", r.ok, TRUE)
        /\ UNCHANGED <<main_app_running, tree, bkps, clock>>
        /\ UNCHANGED <<procVars, outsideSess>>

\* A variant that removes the installation tree before it looks for the
\* snapshot.
RestoreInitial_RemoveFirst(flt) ==
    IF initial_state_backup_dir = 0 THEN [ok |-> FALSE, dst |-> "absent"]
    ELSE IF snaps[initial_state_backup_dir] = "absent"
    THEN [ok |-> FALSE, dst |-> "absent"]
    ELSE copytree(snaps[initial_state_backup_dir], "absent", flt)

\* The body of StateManager.restore_initial_state: the result and the tree.
RestoreInitial(flt) ==
    IF initial_state_backup_dir = 0 THEN [ok |-> FALSE, dst |-> tree]
    ELSE IF snaps[initial_state_backup_dir] = "absent"
    THEN [ok |-> FALSE, dst |-> tree]
    ELSE copytree(snaps[initial_state_backup_dir], "absent", flt)

restore_initial_state ==
    \E flt \in CopyFaults : \E r \in {RestoreInitial(flt)} :
        /\ flt # "none" => r # RestoreInitial("none")
        /\ tree' = r.dst
        /\ slast' = SessCall("restore_initial_state", r.ok, TRUE)
        /\ UNCHANGED <<main_app_running, initial_state_backup_dir, snaps, bkps,
                       clock>>
        /\ UNCHANGED <<procVars, outsideSess>>

\* ProcessManager.stop_process called from the one serving thread.
StopTracked ==
    /\ alive' = IF current_process # "None" THEN alive \ {current_process}
                ELSE alive
    /\ current_process' = "None"
    /\ is_running' = FALSE
    /\ UNCHANGED <<lock, pt>>

\* StateManager.set_main_app_running(running).
set_main_app_running ==
    \E running \in BOOLEAN :
        /\ main_app_running' = running
        /\ IF running THEN UNCHANGED procVars ELSE StopTracked
        /\ slast' = SessCall("set_main_app_running", TRUE, TRUE)
        /\ UNCHANGED <<initial_state_backup_dir, tree, snaps, bkps, clock>>
        /\ UNCHANGED outsideSess

\* POST /api/start-application.
start_application ==
    /\ main_app_running' = TRUE
    /\ slast' = SessCall("start", TRUE, TRUE)
    /\ UNCHANGED <<initial_state_backup_dir, tree, snaps, bkps, clock>>
    /\ UNCHANGED <<procVars, outsideSess>>

\* POST /api/stop-process, with or without a path in the request.
stop_process_handler ==
    \E path \in BOOLEAN, flt \in CopyFaults :
      \E r \in {RestoreInitial(flt)} :
        /\ flt # "none" => path /\ r # RestoreInitial("none")
        /\ slast' = SessCall("stop", path /\ r.ok, path)
        /\ IF ~path THEN UNCHANGED <<main_app_running, tree, procVars>>
           ELSE /\ StopTracked
                /\ tree' = r.dst
                /\ main_app_running' =
                       IF r.ok THEN FALSE ELSE main_app_running
        /\ UNCHANGED <<initial_state_backup_dir, snaps, bkps, clock>>
        /\ UNCHANGED outsideSess

SessNext ==
    \/ Tick
    \/ Modify
    \/ Vanish
    \/ create_backup
    \/ restore_from_backup
    \/ create_initial_state_backup
    \/ restore_initial_state
    \/ set_main_app_running
    \/ start_application
    \/ stop_process_handler

SessInit == Init /\ OneInstallation

SessSpec == SessInit /\ [][SessNext]_vars

(***************************************************************************)
(* ReadSpec: the read operations of StateManager, among the calls that     *)
(* make, use and lose the initial snapshot.                                *)
(***************************************************************************)
SessRead(op, ret) == [op |-> op, ok |-> TRUE, path |-> TRUE, ret |-> ret]

\* StateManager.get_initial_state_backup_dir() (the same in AppState).
get_initial_state_backup_dir ==
    /\ slast' = SessRead("get_initial_state_backup_dir",
                         initial_state_backup_dir)
    /\ UNCHANGED <<main_app_running, initial_state_backup_dir, tree, snaps,
                   bkps, clock>>
    /\ UNCHANGED <<procVars, outsideSess>>

\* StateManager.get_state(): ret is the "initial_state_backup_dir" entry.
\* process_manager.get_state() polls the tracked child on the way.
StateManager_get_state ==
    /\ \E gone \in {current_process # "None" /\ current_process \notin alive} :
          /\ is_running' = IF gone THEN FALSE ELSE is_running
          /\ current_process' = IF gone THEN "None" ELSE current_process
    /\ slast' = SessRead("get_state", initial_state_backup_dir)
    /\ UNCHANGED <<main_app_running, initial_state_backup_dir, tree, snaps,
                   bkps, clock>>
    /\ UNCHANGED <<lock, alive, pt, outsideSess>>

ReadNext ==
    \/ Tick
    \/ Modify
    \/ Vanish
    \/ create_initial_state_backup
    \/ restore_initial_state
    \/ get_initial_state_backup_dir
    \/ StateManager_get_state

ReadInit == Init /\ OneInstallation

ReadSpec == ReadInit /\ [][ReadNext]_vars

(***************************************************************************)
(* DictSpec: create_backup and restore_from_backup of src/utils.py, whole  *)
(* calls on one installation and its directory ffmpeg_backup.              *)
(*                                                                         *)
(* src/utils.py binds no name logger (it imports logging, and these two    *)
(* functions call logger.info and logger.error): each such call raises     *)
(* NameError.  Raised inside a try block, the NameError is caught by       *)
(* "except Exception", whose first statement is logger.error(...) again,   *)
(* so it leaves the function.  A call therefore ends in "success",         *)
(* "failure" (a result dict) or "NameError" (raised to the caller).        *)
(***************************************************************************)
DictFaults == {"none", "mkdir", "copy", "trunc"}

\* get_ffmpeg_paths(emby_path)["success"]
get_ffmpeg_paths(f) == find_ffmpeg_binaries(f)

\* One iteration of the loop of create_backup (src/utils.py:544-553).
DictBackupStep(f, b, flt) ==
    IF flt = "copy" THEN [fs |-> f, r |-> "NameError"]
    ELSE IF flt = "trunc"
    THEN [fs |-> [f EXCEPT !.bak[b] = Truncated], r |-> "NameError"]
    ELSE [fs |-> [f EXCEPT !.bak[b] = copy2(f.inst[b])], r |-> "NameError"]

RECURSIVE DictBackupLoop(_, _, _)
DictBackupLoop(f, i, flt) ==
    IF i > Len(Binaries) THEN [fs |-> f, r |-> "success"]
    ELSE LET s == DictBackupStep(f, Binaries[i], flt)
         IN  IF s.r = "ok" THEN DictBackupLoop(s.fs, i + 1, flt) ELSE s

\* create_backup(emby_path) of src/utils.py.
utils_create_backup(f, flt) ==
    IF f.bdir THEN [fs |-> f, r |-> "NameError"]
    ELSE IF ~get_ffmpeg_paths(f) THEN [fs |-> f, r |-> "failure"]
    ELSE IF flt = "mkdir" THEN [fs |-> f, r |-> "NameError"]
    ELSE DictBackupLoop([f EXCEPT !.bdir = TRUE], 1, flt)

\* One iteration of the loop of restore_from_backup (src/utils.py:574-585).
DictRestoreStep(f, b, flt) ==
    IF ~Exists(f.bak[b]) THEN [fs |-> f, r |-> "failure"]
    ELSE IF flt = "copy" THEN [fs |-> f, r |-> "NameError"]
    ELSE IF flt = "trunc"
    THEN [fs |-> [f EXCEPT !.inst[b] = Truncated], r |-> "NameError"]
    ELSE [fs |-> [f EXCEPT !.inst[b] = chmod755(copy2(f.bak[b]))],
          r |-> "NameError"]

RECURSIVE DictRestoreLoop(_, _, _)
DictRestoreLoop(f, i, flt) ==
    IF i > Len(Binaries) THEN [fs |-> f, r |-> "success"]
    ELSE LET s == DictRestoreStep(f, Binaries[i], flt)
         IN  IF s.r = "ok" THEN DictRestoreLoop(s.fs, i + 1, flt) ELSE s

\* restore_from_backup(emby_path) of src/utils.py.
utils_restore_from_backup(f, flt) ==
    IF ~f.bdir THEN [fs |-> f, r |-> "failure"]
    ELSE IF ~get_ffmpeg_paths(f) THEN [fs |-> f, r |-> "failure"]
    ELSE DictRestoreLoop(f, 1, flt)

CreateBackupCall ==
    \E flt \in DictFaults : \E r \in {utils_create_backup(dfs, flt)} :
        /\ flt # "none" => r # utils_create_backup(dfs, "none")
        /\ dfs' = r.fs
        /\ dlast' = [op |-> "create_backup", res |-> r.r]
        /\ UNCHANGED outsideDict

RestoreFromBackupCall ==
    \E flt \in DictFaults \ {"mkdir"} :
      \E r \in {utils_restore_from_backup(dfs, flt)} :
        /\ flt # "none" => r # utils_restore_from_backup(dfs, "none")
        /\ dfs' = r.fs
        /\ dlast' = [op |-> "restore_from_backup", res |-> r.r]
        /\ UNCHANGED outsideDict

\* The failures the two initial-state functions can meet.
InitialFaults ==
    {[stage |-> "initial", at |-> b, op |-> o] :
        b \in BinSet, o \in {"copy", "trunc", "chmod"}}
    \cup {[stage |-> "initial", at |-> "dir", op |-> "mkdir"]}

\* create_initial_state_backup(emby_path) of src/utils.py.  The directory is
\* named after the second of the call: same says that the directory of the
\* recorded snapshot was made in this very second, and os.makedirs raises.
\* A copy that fails removes the new directory again, so a failed call
\* leaves everything as it was; a successful one records the new directory
\* (an older snapshot directory stays on the disk, no longer referred to).
utils_create_initial_state_backup(f, same, flt) ==
    IF ~get_ffmpeg_paths(f) THEN [fs |-> f, r |-> "failure"]
    ELSE IF (same /\ f.idir) \/ Hits(flt, "initial", "dir", "mkdir")
    THEN [fs |-> f, r |-> "failure"]
    ELSE IF \E b \in BinSet : \E o \in {"copy", "trunc"} :
               Hits(flt, "initial", b, o)
    THEN [fs |-> f, r |-> "failure"]
    ELSE [fs |-> [f EXCEPT !.iref = TRUE, !.idir = TRUE,
                           !.isnap = [b \in BinSet |-> copy2(f.inst[b])]],
          r |-> "success"]

\* One iteration of the loop of restore_initial_state.
InitialRestoreStep(f, b, flt) ==
    IF ~Exists(f.isnap[b]) THEN [fs |-> f, r |-> "failure"]
    ELSE IF Hits(flt, "initial", b, "copy") THEN [fs |-> f, r |-> "failure"]
    ELSE IF Hits(flt, "initial", b, "trunc")
    THEN [fs |-> [f EXCEPT !.inst[b] = Truncated], r |-> "failure"]
    ELSE IF Hits(flt, "initial", b, "chmod")
    THEN [fs |-> [f EXCEPT !.inst[b] = copy2(f.isnap[b])], r |-> "failure"]
    ELSE [fs |-> [f EXCEPT !.inst[b] = chmod755(copy2(f.isnap[b]))],
          r |-> "ok"]

RECURSIVE InitialRestoreLoop(_, _, _)
InitialRestoreLoop(f, i, flt) ==
    IF i > Len(Binaries)
    THEN [fs |-> [f EXCEPT !.iref = FALSE, !.idir = FALSE,
                           !.isnap = [b \in BinSet |-> Absent]],
          r |-> "success"]
    ELSE LET s == InitialRestoreStep(f, Binaries[i], flt)
         IN  IF s.r = "ok" THEN InitialRestoreLoop(s.fs, i + 1, flt) ELSE s

\* restore_initial_state(emby_path) of src/utils.py.
utils_restore_initial_state(f, flt) ==
    IF ~f.iref \/ ~f.idir THEN [fs |-> f, r |-> "failure"]
    ELSE IF ~get_ffmpeg_paths(f) THEN [fs |-> f, r |-> "failure"]
    ELSE InitialRestoreLoop(f, 1, flt)

CreateInitialCall ==
    \E same \in BOOLEAN, flt \in InitialFaults \cup {NoFault} :
      \E r \in {utils_create_initial_state_backup(dfs, same, flt)} :
        /\ flt # NoFault =>
              r # utils_create_initial_state_backup(dfs, same, NoFault)
        /\ dfs' = r.fs
        /\ dlast' = [op |-> "create_initial_state_backup", res |-> r.r]
        /\ UNCHANGED outsideDict

RestoreInitialCall ==
    \E flt \in InitialFaults \cup {NoFault} :
      \E r \in {utils_restore_initial_state(dfs, flt)} :
        /\ flt # NoFault => r # utils_restore_initial_state(dfs, NoFault)
        /\ dfs' = r.fs
        /\ dlast' = [op |-> "restore_initial_state", res |-> r.r]
        /\ UNCHANGED outsideDict

\* Someone removes the recorded snapshot directory from the disk.
InitialVanish ==
    /\ dfs.idir
    /\ dfs' = [dfs EXCEPT !.idir = FALSE,
                          !.isnap = [b \in BinSet |-> Absent]]
    /\ dlast' = [op |-> "vanish", res |-> "none"]
    /\ UNCHANGED outsideDict

DictNext ==
    \/ CreateBackupCall
    \/ RestoreFromBackupCall
    \/ CreateInitialCall
    \/ RestoreInitialCall
    \/ InitialVanish

\* The installation holds the binaries of one architecture, or lacks one of
\* them; ffmpeg_backup does not exist, or holds any of the three names.
DictFS ==
    {[inst |-> [b \in BinSet |-> IF b = m THEN Absent ELSE OriginalFile(a, b)],
      bdir |-> d,
      bak |-> [b \in BinSet |-> IF d /\ b \in k THEN OriginalFile(ka, b)
                                ELSE Absent],
      iref |-> FALSE, idir |-> FALSE, isnap |-> [b \in BinSet |-> Absent]] :
        a \in Archs, m \in BinSet \cup {"none"}, d \in BOOLEAN,
        k \in SUBSET BinSet, ka \in Archs}

DictInit ==
    /\ OneInstallation
    /\ InitRest
    /\ dfs \in DictFS
    /\ dlast = NoDictCall
    /\ NoPureInputs

DictSpec == DictInit /\ [][DictNext]_vars

(***************************************************************************)
(* ForceSpec: the test mode.  /api/force-test-mode (src/app.py:431-492)    *)
(* in front of force_single_architecture, with create, fix and restore     *)
(* calls that meet no failure.                                             *)
(***************************************************************************)
ForceCall(flt, pre, a, ok, err, ran) ==
    [Call("force", flt, pre, ok, err, "NotCalled") EXCEPT
        !.arch = a, !.ran = ran]

\* The handler: the request's path and architecture are validated, a target
\* equal to the host's architecture is rejected, and find_ffmpeg_binaries
\* returning None makes force_single_architecture raise.
ForceRequest_NoHostCheck(f, path, a, flt) ==
    IF ~path THEN [fs |-> f, res |-> "Invalid", ran |-> {}]
    ELSE IF a \notin Archs THEN [fs |-> f, res |-> "Invalid", ran |-> {}]
    ELSE IF ~find_ffmpeg_binaries(f) THEN [fs |-> f, res |-> "raised", ran |-> {}]
    ELSE force_single_architecture(f, a, flt)

ForceRequest(f, path, a, flt) ==
    IF ~path THEN [fs |-> f, res |-> "Invalid", ran |-> {}]
    ELSE IF a \notin Archs THEN [fs |-> f, res |-> "Invalid", ran |-> {}]
    ELSE IF a = HostArch THEN [fs |-> f, res |-> "Rejected", ran |-> {}]
    ELSE IF ~find_ffmpeg_binaries(f) THEN [fs |-> f, res |-> "raised", ran |-> {}]
    ELSE force_single_architecture(f, a, flt)

force_test_mode ==
    \E path \in BOOLEAN, a \in Archs \cup {"other"},
       flt \in ForceFaults \cup {NoFault} :
      \E r \in {ForceRequest(fs, path, a, flt)} :
        /\ flt # NoFault => r # ForceRequest(fs, path, a, NoFault)
        /\ fs' = r.fs
        /\ last' = ForceCall(flt, fs, a, r.res = "Success", r.res, r.ran)
        /\ prev' = Brief(last)
        /\ UNCHANGED <<orig, concVars, outsideFiles>>

CleanCreate == CreateWith({NoFault})

CleanFix == FixWith({NoFault})

CleanRestore == RestoreWith({NoFault})

ForceNext == force_test_mode \/ CleanCreate \/ CleanFix \/ CleanRestore

ForceInit ==
    /\ fs \in {Installation(a, l) : a \in Archs, l \in SUBSET LegacyMarkers}
    /\ InitRest
    /\ dfs = NoDictBackup
    /\ dlast = NoDictCall
    /\ NoPureInputs

ForceSpec == ForceInit /\ [][ForceNext]_vars

(***************************************************************************)
(* Properties of the engine (Spec).                                        *)
(***************************************************************************)

\* The backup directory holds a copy of every original binary.
BackupHoldsOriginals ==
    fs.bakdir /\ \A b \in BinSet : fs.bak[b].c = orig[b].c

\* C1: a fix call changes an installed binary only if, when it returns, the
\* backup directory exists and holds all three originals; and when its backup
\* step failed (returned False or the pair (False, message)) the call returns
\* failure and the installed binaries are as before.
C1_FixOnlyAfterBackup ==
    [][last'.op = "fix" =>
          /\ (fs'.inst # fs.inst =>
                 fs'.bakdir /\ \A b \in BinSet : fs'.bak[b].c = orig[b].c)
          /\ (last'.bk \in {"Tuple", "False"} =>
                 ~last'.ok /\ fs'.inst = fs.inst)]_vars

\* C2: a restore call that finds the backup directory without one of the
\* required binaries fails and leaves every installed binary as it was.
C2_NoPartialRestore ==
    [][(last'.op = "restore" /\ fs.bakdir
          /\ \E b \in BinSet : ~Exists(fs.bak[b])) =>
          ~last'.ok /\ fs'.inst = fs.inst]_vars

\* C3: a create call that began without a backup directory and failed leaves
\* no backup directory behind.
C3_FailedCreateLeavesNoBackup ==
    [][(last'.op = "create" /\ ~fs.bakdir /\ ~last'.ok) => ~fs'.bakdir]_vars

\* The failures of the replacement loop of fix: os.remove, shutil.copy2 and
\* os.chmod.
LoopFailure(c) ==
    c.op = "fix" /\ ~c.ok /\ c.err \in {"RemoveFailed", "CopyFailed"}

\* C7: after a fix that failed in its replacement loop, with the backup
\* holding all three originals, a restore call that meets no failure of its
\* own succeeds and leaves the three installed binaries as the originals.
C7_RestoreRecoversFailedFix ==
    [][(LoopFailure(last) /\ BackupHoldsOriginals
          /\ last'.op = "restore" /\ last'.clean) =>
          last'.ok /\ \A b \in BinSet : fs'.inst[b].c = orig[b].c]_vars

\* C9 as stated: a create call that returned True, followed immediately by a
\* restore call that meets no failure, makes restore succeed and leave every
\* installed binary with the content it had before, executable.  (Stated for
\* a backup directory that holds the three originals: what restore does with
\* an incomplete one is C2 and C3.)
C9_RoundTripAsStated ==
    [][(last.op = "create" /\ last.ok /\ BackupHoldsOriginals
          /\ last'.op = "restore" /\ last'.clean) =>
          last'.ok /\ \A b \in BinSet : fs'.inst[b] = chmod755(fs.inst[b])]_vars

\* C9 amended: the same, for a create call that began with no backup
\* directory.
C9_RoundTripFreshBackup ==
    [][(last.op = "create" /\ last.ok /\ ~last.hadBak
          /\ last'.op = "restore" /\ last'.clean) =>
          last'.ok /\ \A b \in BinSet : fs'.inst[b] = chmod755(fs.inst[b])]_vars

\* C9 witness: a restore that succeeded right after a create that made the
\* backup directory, on binaries that are not all executable originals.
C9_RoundTripReached ==
    /\ prev.op = "create" /\ prev.ok /\ ~prev.hadBak
    /\ last.op = "restore" /\ last.ok /\ last.clean
    /\ fs.inst # orig

(***************************************************************************)
(* Properties of the interleaved calls (ConcSpec).                         *)
(***************************************************************************)

\* C8: whenever /api/check-backup answers has_backup = true, the backup
\* directory it looked at held every required binary; and a restore never
\* finds the backup directory without one of them.
C8_NoHalfWrittenBackupSeen ==
    /\ seen.has => seen.complete
    /\ \A t \in Threads :
          ~(th[t].op = "restore" /\ th[t].ret = "BackupIncomplete")

(***************************************************************************)
(* Properties of the ProcessManager (ProcSpec).                            *)
(***************************************************************************)

\* C4: a run_process call made while a child is alive returns None: it does
\* not spawn a child of its own and, unless Popen raised, returns nothing
\* but None.
C4_SecondStartReturnsNone ==
    \A t \in Threads :
        (pt[t].op = "run" /\ pt[t].inv # {} /\ pt[t].ret # "raised") =>
            /\ pt[t].pc # "wait"
            /\ pt[t].pc = "done" => pt[t].ret = "None"

\* C5: a stop_process call made while a child is alive returns True having
\* terminated that child.
C5_StopStopsLiveChild ==
    \A t \in Threads :
        (pt[t].op = "stop" /\ pt[t].inv # {} /\ pt[t].pc = "done") =>
            /\ pt[t].ret = "True"
            /\ pt[t].stopped \in pt[t].inv

(***************************************************************************)
(* Properties of the session (SessSpec).                                   *)
(***************************************************************************)

\* C6: once /api/stop-process has been called with a path, the activated
\* flag is false and the supervisor tracks no process.
C6_StopResetsActivated ==
    (slast.op = "stop" /\ slast.path) =>
        /\ ~main_app_running
        /\ ~is_running
        /\ current_process = "None"

\* C10: a create_backup call that directly follows a successful create_backup
\* call (only time may have passed) reports success and leaves the backup
\* directories and their contents as the first call left them.
C10_CreateTwiceOneBackup ==
    [][(/\ slast.op = "create_backup" /\ slast.ok
        /\ slast'.op = "create_backup" /\ clock' = clock)
       => slast'.ok /\ bkps' = bkps]_vars

(***************************************************************************)
(* Properties of the result-dict functions (DictSpec).                     *)
(***************************************************************************)

\* C11: restore_from_backup returns a failure result when ffmpeg_backup does
\* not exist, and when it exists but lacks a required binary.
C11_RestoreFailsWithoutFullBackup ==
    [][(/\ dlast'.op = "restore_from_backup"
        /\ ~dfs.bdir \/ \E b \in BinSet : ~Exists(dfs.bak[b]))
       => dlast'.res = "failure"]_vars

(***************************************************************************)
(* ArchSpec: get_system_architecture, get_ffmpeg_architecture and          *)
(* /api/check-compatibility applied to a host and three binaries of any    *)
(* kind.                                                                   *)
(***************************************************************************)
SystemArchitectureCall ==
    /\ plast' = PureCall("get_system_architecture",
                         get_system_architecture(machine))
    /\ UNCHANGED <<machine, probe, dirtag, layout, outsidePure>>

FfmpegArchitectureCall ==
    \E v \in ReturnValues(Architectures(probe, dirtag, machine)) :
        /\ plast' = PureCall("get_ffmpeg_architecture", v)
        /\ UNCHANGED <<machine, probe, dirtag, layout, outsidePure>>

CheckCompatibilityCall ==
    \E r \in CheckAnswers(machine, probe, dirtag) :
        /\ plast' = [op |-> "check_compatibility", ret |-> r.ret,
                     success |-> r.success, compatible |-> r.compatible]
        /\ UNCHANGED <<machine, probe, dirtag, layout, outsidePure>>

ArchNext ==
    \/ SystemArchitectureCall
    \/ FfmpegArchitectureCall
    \/ CheckCompatibilityCall

ArchInit ==
    /\ OneInstallation
    /\ InitRest
    /\ dfs = NoDictBackup
    /\ dlast = NoDictCall
    /\ machine \in Machines
    /\ probe \in [BinSet -> Observations]
    /\ dirtag \in PathTags
    /\ layout = DefaultLayout
    /\ plast = NoPureCall

ArchSpec == ArchInit /\ [][ArchNext]_vars

(***************************************************************************)
(* LocateSpec: find_ffmpeg_binaries applied to an installation tree of any *)
(* layout.                                                                 *)
(***************************************************************************)
FindBinariesCall ==
    /\ plast' = PureCall("find_ffmpeg_binaries",
                         find_ffmpeg_binaries_path(layout))
    /\ UNCHANGED <<machine, probe, dirtag, layout, outsidePure>>

CoreFindBinariesCall ==
    \E v \in core_find_ffmpeg_binaries(layout) :
        /\ plast' = PureCall("core_find_ffmpeg_binaries", v)
        /\ UNCHANGED <<machine, probe, dirtag, layout, outsidePure>>

LocateNext == FindBinariesCall \/ CoreFindBinariesCall

LocateInit ==
    /\ OneInstallation
    /\ InitRest
    /\ dfs = NoDictBackup
    /\ dlast = NoDictCall
    /\ machine = HostArch
    /\ probe = [b \in BinSet |-> HostArch]
    /\ dirtag = "none"
    /\ layout \in Layouts
    /\ plast = NoPureCall

LocateSpec == LocateInit /\ [][LocateNext]_vars

(***************************************************************************)
(* Properties of the test mode (ForceSpec).                                *)
(***************************************************************************)

\* C12: a successful restore that directly follows a successful force leaves
\* no test-mode marker: neither ffmpeg_test_mode nor ffmpeg_test/test_mode.
C12_RestoreClearsMarkers ==
    [][(/\ last.op = "force" /\ last.ok
        /\ last'.op = "restore" /\ last'.ok)
       => fs'.tmark = "absent" /\ "ffmpeg_test_mode" \notin fs'.legacy]_vars

\* C13: after a successful force for a target other than the host's
\* architecture, get_ffmpeg_architecture returns that target, whatever
\* architecture name the path of the binaries directory holds.
C13_ForcedArchDetected ==
    (last.op = "force" /\ last.ok /\ last.arch # HostArch) =>
        \A tag \in PathTags : get_ffmpeg_architecture(fs, tag) = {last.arch}

\* C14: a force request whose target is the host's architecture fails and
\* leaves every file and directory as it was.
C14_HostTargetRejected ==
    [][(last'.op = "force" /\ last'.arch = HostArch)
       => ~last'.ok /\ fs' = fs]_vars

\* C14, reached: a request for the host's architecture was rejected on an
\* installation that has been forced before.
C14_RejectedReached ==
    /\ last.op = "force" /\ last.arch = HostArch /\ last.err = "Rejected"
    /\ prev.op = "force" /\ prev.ok

\* C15: force succeeds only if all three stand-ins were run and failed as
\* expected, and the marker records the target exactly when force succeeds:
\* a failed force leaves the marker as it was, or empty where writing it
\* failed.
C15_SuccessOnlyIfVerified ==
    [][last'.op = "force" =>
         /\ last'.ok => last'.ran = BinSet /\ fs'.tmark = last'.arch
         /\ ~last'.ok => fs'.tmark \in {fs.tmark, "empty"}]_vars

\* C15, reached: the second stand-in did not fail as expected, force failed
\* and wrote no marker.
C15_DeviationReached ==
    /\ last.op = "force" /\ ~last.ok /\ last.ran = {Binaries[1]}
    /\ fs.tmark = "absent"
    /\ fs.inst[Binaries[2]].c[1] = "standin"

(***************************************************************************)
(* Properties of fix and check (Spec).                                     *)
(***************************************************************************)

\* C16: a fix that finds no replacement directory for the requested
\* architecture returns failure and leaves every file of the binaries
\* directory as it was.
C16_NoAssetsLeavesBinaries ==
    [][(last'.op = "fix" /\ last'.err = "NoReplacement")
       => ~last'.ok /\ fs'.inst = fs.inst]_vars

\* C16, reached: fix failed for want of the replacement directory on an
\* installation that still has its original binaries.
C16_NoAssetsReached ==
    /\ last.op = "fix" /\ last.err = "NoReplacement" /\ ~last.ok
    /\ fs.inst = orig

\* C17: on an untouched installation for which check answers compatible =
\* false, a successful fix makes check answer compatible = true, and
\* afterwards the backup directory exists and holds the binaries that were
\* installed before the fix.
C17_FixMakesCompatible ==
    [][\A tag \in PathTags :
        (/\ fs.inst = orig /\ ~fs.bakdir
         /\ \A r \in check_compatibility(fs, tag) : ~r.compatible
         /\ last'.op = "fix" /\ last'.ok)
        => /\ \A r \in check_compatibility(fs', tag) : r.compatible
           /\ fs'.bakdir
           /\ \A b \in BinSet : fs'.bak[b].c = fs.inst[b].c]_vars

\* C18: where check answers compatible = true (for an installation path
\* that holds no architecture name), a fix that meets no failure returns
\* success and leaves every installed binary as it was.
C18_FixNoOpWhenCompatible ==
    [][(/\ \A r \in check_compatibility(fs, "none") : r.compatible
        /\ last'.op = "fix" /\ last'.clean)
       => last'.ok /\ fs'.inst = fs.inst]_vars

\* C19: after a fix that failed while replacing the binaries, the backup
\* directory exists and holds every original binary.
C19_FailedFixIsBackedUp ==
    [][(last'.op = "fix" /\ ~last'.ok /\ LoopFailure(last'))
       => fs'.bakdir /\ \A b \in BinSet : fs'.bak[b].c = orig[b].c]_vars

(***************************************************************************)
(* Properties of the initial snapshot (SessSpec).                          *)
(***************************************************************************)

\* C20: restore_initial_state called while no snapshot is recorded, or while
\* the recorded snapshot directory does not exist, returns failure and
\* leaves the installation tree and every snapshot and backup as they were.
C20_NoSnapshotNoRollback ==
    [][(/\ slast'.op = "restore_initial_state" /\ clock' = clock
        /\ \/ initial_state_backup_dir = 0
           \/ snaps[initial_state_backup_dir] = "absent")
       => /\ ~slast'.ok
          /\ tree' = tree /\ snaps' = snaps /\ bkps' = bkps]_vars

\* C20 for restore_initial_state of src/utils.py (DictSpec): with no
\* snapshot recorded, or its directory gone, the call returns failure and
\* changes no file.
UtilsRestoreInitialNeedsSnapshot ==
    [][(/\ dlast'.op = "restore_initial_state"
        /\ ~dfs.iref \/ ~dfs.idir)
       => dlast'.res = "failure" /\ dfs' = dfs]_vars

\* C20, reached: the recorded snapshot directory was removed, the
\* installation was modified, and restore_initial_state failed.
C20_VanishedReached ==
    /\ slast.op = "restore_initial_state" /\ ~slast.ok
    /\ initial_state_backup_dir # 0
    /\ snaps[initial_state_backup_dir] = "absent"
    /\ tree = "v2"

\* C21: a successful restore_initial_state leaves no snapshot recorded (so
\* that a second one without a new snapshot finds none).
C21_RollbackClearsReference ==
    [][(/\ slast'.op = "restore_initial_state" /\ clock' = clock
        /\ slast'.ok)
       => initial_state_backup_dir' = 0]_vars

\* C21 for restore_initial_state of src/utils.py (DictSpec): a successful
\* call clears INITIAL_STATE_BACKUP_DIR.
UtilsRollbackClearsReference ==
    (dlast.op = "restore_initial_state" /\ dlast.res = "success")
        => ~dfs.iref /\ ~dfs.idir

\* C22: at most one snapshot directory emby_initial_backup_<timestamp>
\* exists at any time.
C22_OneSnapshotDirectory ==
    Cardinality({ts \in Seconds : snaps[ts] # "absent"}) <= 1

\* C23: a read that finds the recorded snapshot directory gone clears the
\* reference and reports none.
C23_ReadsSelfHeal ==
    [][(/\ slast'.op \in {"get_initial_state_backup_dir", "get_state"}
        /\ clock' = clock
        /\ initial_state_backup_dir # 0
        /\ snaps[initial_state_backup_dir] = "absent")
       => slast'.ret = 0 /\ initial_state_backup_dir' = 0]_vars

(***************************************************************************)
(* Properties of the supervisor (ProcSpec).                                *)
(***************************************************************************)

\* C24: at most one child spawned by the supervisor is alive, and a child
\* that is alive is the one the supervisor tracks.
C24_AtMostOneChild ==
    /\ Cardinality(alive) <= 1
    /\ alive \subseteq {current_process}

\* C24, reached: a thread that called run_process while another thread's
\* child was alive has spawned its own child after that one exited.
C24_SecondChildReached ==
    \E t \in Threads :
        /\ pt[t].op = "run" /\ pt[t].pc = "wait" /\ pt[t].inv # {}
        /\ alive = {t}

\* C25: stop_process with no process tracked returns True and leaves
\* is_running false, no handle, and every child as it was.
C25_StopWithNothingRunning ==
    [][\A t \in Threads :
        (/\ pt[t].op = "stop" /\ pt[t].pc = "want" /\ pt'[t].pc = "done"
         /\ current_process = "None")
        => /\ pt'[t].ret = "True"
           /\ ~is_running' /\ current_process' = "None"
           /\ alive' = alive]_vars

\* C25, reached: a stop_process call with nothing tracked has returned
\* after an earlier run_process had spawned and reaped a child.
C25_IdleStopReached ==
    \E t \in Threads, u \in Threads :
        /\ pt[t].op = "stop" /\ pt[t].pc = "done" /\ pt[t].stopped = "None"
        /\ pt[u].op = "run" /\ pt[u].ret = "code"
        /\ ~is_running

\* C29: no call of run_process ends with an exception raised to its caller.
C29_NoExceptionEscapes ==
    \A t \in Threads : pt[t].ret # "raised"

(***************************************************************************)
(* Properties of the functions that only read (ArchSpec, LocateSpec).      *)
(***************************************************************************)

C27_SynonymsMapped ==
    plast.op = "get_system_architecture"
        => IF machine \in Recognized THEN plast.ret \in Archs
           ELSE plast.ret = machine

\* The architecture detected for the first binary, in the loop's order, for
\* which one is detected; "None" if there is none.
RECURSIVE FirstDetected(_)
FirstDetected(i) ==
    IF i > Len(Binaries) THEN "None"
    ELSE LET a == BinaryArch(probe[Binaries[i]], dirtag,
                             get_system_architecture(machine))
         IN  IF a = {} THEN FirstDetected(i + 1) ELSE CHOOSE v \in a : TRUE

\* C28: get_ffmpeg_architecture returns the architecture detected for the
\* first binary for which one is detected (the common one if all agree),
\* and None if none is detected.
C28_FirstDetectedReturned ==
    plast.op = "get_ffmpeg_architecture" => plast.ret = FirstDetected(1)

\* C30: where no candidate directory holds all three binaries but some
\* directory below emby_path holds ffmpeg, find_ffmpeg_binaries returns a
\* directory that holds it.
C30_FallsBackToWalk ==
    (/\ plast.op \in {"find_ffmpeg_binaries", "core_find_ffmpeg_binaries"}
     /\ layout.root
     /\ \A i \in 1..Len(Candidates) : layout.cand[i] # "full"
     /\ ContainingDirs(layout) # {})
        => plast.ret \in ContainingDirs(layout)

(***************************************************************************)
(* Properties of the backup directory over sequences of calls.             *)
(***************************************************************************)

\* C31: every successful restore leaves the three installed binaries with
\* the content they had when the backup directory was made (no call changes
\* an installed binary before the directory exists, so that content is
\* orig), and a successful restore directly after a successful restore
\* changes nothing.
C31_RestoreBringsBackOriginals ==
    [][(last'.op = "restore" /\ last'.ok)
       => /\ \A b \in BinSet : fs'.inst[b].c = orig[b].c
          /\ (last.op = "restore" /\ last.ok) => fs' = fs]_vars

\* C36: a restore_initial_state that returns failure leaves the installation
\* tree as it was before the call.
C36_FailedRollbackKeepsTree ==
    [][(slast'.op = "restore_initial_state" /\ clock' = clock /\ ~slast'.ok)
       => tree' = tree]_vars

\* C37: whenever the directory ffmpeg_backup_original exists, it holds all
\* three binaries ffmpeg, ffprobe and ffdetect.
C37_BackupDirIsComplete ==
    fs.bakdir => \A b \in BinSet : fs.bak[b].c # <<"absent">>

\* C32: a create_initial_state_backup that is called in the same second as
\* an earlier one that succeeded also succeeds.
C32_SameSecondSnapshotsSucceed ==
    [][(/\ slast'.op = "create_initial_state_backup" /\ clock' = clock
        /\ slast.op = "create_initial_state_backup" /\ slast.ok
        /\ snaps[clock] = tree)
       => slast'.ok]_vars

\* C39: create_initial_state_backup changes the recorded snapshot only when
\* it succeeds: after a failure the reference is what it was, after a
\* success it names the directory of this second, which exists and is a
\* copy of the installation tree; the tree itself is not changed.
C39_ReferenceOnlyOnSuccess ==
    [][(slast'.op = "create_initial_state_backup" /\ clock' = clock)
       => /\ tree' = tree
          /\ IF slast'.ok
             THEN /\ initial_state_backup_dir' = clock
                  /\ snaps'[clock] = tree /\ tree # "absent"
             ELSE initial_state_backup_dir' = initial_state_backup_dir]_vars

\* A create_initial_state_backup has failed in a later second than the
\* recorded snapshot, which is still recorded.
C39_FailedCreateReached ==
    /\ slast.op = "create_initial_state_backup" /\ ~slast.ok
    /\ initial_state_backup_dir # 0 /\ initial_state_backup_dir < clock
    /\ snaps[initial_state_backup_dir] # "absent"

\* C34: whenever no thread holds the ProcessManager lock, is_running is
\* false and no handle is tracked; so the body of every get_state,
\* is_running and stop_process call sees is_running false and no handle,
\* reports that, and runs while no run_process is waiting for its child.
C34_FieldsHiddenWhileChildRuns ==
    /\ [](lock = "free" => ~is_running /\ current_process = "None")
    /\ [][\A t \in Threads :
            (/\ pt[t].op \in {"get", "is_running", "stop"}
             /\ pt[t].pc = "want" /\ pt'[t].pc = "done")
            => /\ ~is_running /\ current_process = "None"
               /\ pt'[t].ret \in {"not running", "True"}
               /\ \A u \in Threads : pt[u].pc # "wait"]_vars

\* A get_state or is_running call that was made while another thread's
\* child was alive has returned.
C34_ReadAfterChildReached ==
    \E t \in Threads :
        /\ pt[t].op \in {"get", "is_running"} /\ pt[t].pc = "done"
        /\ pt[t].inv # {}

\* C38: with fix calls running in two threads, no step of a replacement
\* loop changes an installed binary whose original is not yet in the backup
\* directory, and once both calls have returned success the backup holds
\* the original content of all three binaries.
C38_ConcurrentFixKeepsOriginals ==
    /\ [][\A t \in Threads : \A b \in BinSet :
            (/\ \A u \in Threads : th[u].op = "fix"
             /\ At(t, "fix", "f_copy") /\ th'[t] # th[t]
             /\ fs'.inst[b] # fs.inst[b])
            => fs.bak[b].c = orig[b].c]_vars
    /\ []((\A t \in Threads : th[t].op = "fix" /\ th[t].pc = "done"
                                /\ th[t].ret = "ok")
          => \A b \in BinSet : fs.bak[b].c = orig[b].c)

(***************************************************************************)
(* AppSpec: threads calling AppState (src/state.py).  Every method body is *)
(* "with self._lock:" on a threading.Lock, which is not reentrant: a       *)
(* thread that asks for the lock waits until it is free, whoever holds it. *)
(* A thread's pc:                                                          *)
(*   acquire  at "with self._lock" of the innermost call, waiting          *)
(*   body     inside the with block of the innermost call                  *)
(*   wait     run_process: inside self._current_process.wait()             *)
(*   done     the outermost call returned ret                              *)
(***************************************************************************)
AppMethods == {"set_main_app_running", "stop_process", "initialize",
               "run_process", "get_state"}

Top(t) == ct[t].stack[Len(ct[t].stack)]

InBody(t, m) == ct[t].pc = "body" /\ ct[t].stack # <<>> /\ Top(t).m = m

\* The thread calls method m: it arrives at "with self._lock".
Entered(t, m) ==
    [ct[t] EXCEPT !.stack = Append(@, [m |-> m, i |-> 0]), !.pc = "acquire"]

\* The innermost call returns: the outermost to its caller with ret, an
\* inner one to the next step of the body that called it.
Left(t, ret) ==
    IF Len(ct[t].stack) = 1
    THEN [ct[t] EXCEPT !.stack = <<>>, !.pc = "done", !.ret = ret]
    ELSE [ct[t] EXCEPT
             !.stack = [k \in 1..(Len(@) - 1) |->
                           IF k = Len(@) - 1 THEN [@[k] EXCEPT !.i = @ + 1]
                           ELSE @[k]],
             !.pc = "body"]

\* A thread that is in no call calls a method of app_state.
AppCall(t, m, arg) ==
    /\ ct[t].pc \in {"idle", "done"}
    /\ arg => m = "set_main_app_running"
    /\ ct' = [ct EXCEPT ![t] = [stack |-> <<[m |-> m, i |-> 0]>>,
                                arg |-> arg, pc |-> "acquire",
                                ret |-> "none"]]
    /\ UNCHANGED <<app, app_alive, sm_lock, outsideApp>>

\* with self._lock: Lock.acquire() returns once the lock is free.
AppAcquire(t) ==
    /\ ct[t].pc = "acquire"
    /\ app.lock = "free"
    /\ app' = [app EXCEPT !.lock = t]
    /\ ct' = [ct EXCEPT ![t].pc = "body"]
    /\ UNCHANGED <<app_alive, sm_lock, outsideApp>>

\* set_main_app_running: the assignment; for running = False the calls
\* self.stop_process() and self.initialize(), made inside the with block.
AppState_set_main_app_running(t) ==
    /\ InBody(t, "set_main_app_running")
    /\ IF Top(t).i = 0 /\ ct[t].arg
       THEN /\ app' = [app EXCEPT !.main_app_running = TRUE, !.lock = "free"]
            /\ ct' = [ct EXCEPT ![t] = Left(t, "None")]
       ELSE IF Top(t).i = 0
       THEN /\ app' = [app EXCEPT !.main_app_running = FALSE]
            /\ ct' = [ct EXCEPT ![t] = Entered(t, "stop_process")]
       ELSE IF Top(t).i = 1
       THEN /\ app' = app
            /\ ct' = [ct EXCEPT ![t] = Entered(t, "initialize")]
       ELSE /\ app' = [app EXCEPT !.lock = "free"]
            /\ ct' = [ct EXCEPT ![t] = Left(t, "None")]
    /\ UNCHANGED <<app_alive, sm_lock, outsideApp>>

\* initialize: both process fields reset, initialized set.
AppState_initialize(t) ==
    /\ InBody(t, "initialize")
    /\ app' = [app EXCEPT !.current_process = "None", !.is_running = FALSE,
                          !.initialized = TRUE, !.lock = "free"]
    /\ ct' = [ct EXCEPT ![t] = Left(t, "None")]
    /\ UNCHANGED <<app_alive, sm_lock, outsideApp>>

\* stop_process: terminate, wait(timeout=5), kill on timeout.
AppState_stop_process(t) ==
    /\ InBody(t, "stop_process")
    /\ app_alive' = IF app.current_process # "None"
                    THEN app_alive \ {app.current_process} ELSE app_alive
    /\ app' = [app EXCEPT !.current_process = "None", !.is_running = FALSE,
                          !.lock = "free"]
    /\ ct' = [ct EXCEPT ![t] = Left(t, "True")]
    /\ UNCHANGED <<sm_lock, outsideApp>>

\* get_state: poll() the tracked child, report the fields.
AppState_get_state(t) ==
    /\ InBody(t, "get_state")
    /\ \E gone \in {app.current_process # "None"
                      /\ app.current_process \notin app_alive} :
          /\ app' = [app EXCEPT
                       !.is_running = IF gone THEN FALSE ELSE @,
                       !.current_process = IF gone THEN "None" ELSE @,
                       !.lock = "free"]
          /\ ct' = [ct EXCEPT ![t] =
                       Left(t, IF app'.is_running THEN "running"
                               ELSE "not running")]
    /\ UNCHANGED <<app_alive, sm_lock, outsideApp>>

\* run_process up to wait(): the early return, Popen raising, or the spawn.
AppState_run_process(t) ==
    /\ InBody(t, "run_process")
    /\ \/ /\ app.is_running
          /\ app' = [app EXCEPT !.lock = "free"]
          /\ ct' = [ct EXCEPT ![t] = Left(t, "None")]
          /\ UNCHANGED app_alive
       \/ /\ ~app.is_running
          /\ app' = [app EXCEPT !.current_process = "None",
                                !.is_running = FALSE, !.lock = "free"]
          /\ ct' = [ct EXCEPT ![t] = Left(t, "raised")]
          /\ UNCHANGED app_alive
       \/ /\ ~app.is_running
          /\ app' = [app EXCEPT !.current_process = t, !.is_running = TRUE]
          /\ app_alive' = app_alive \cup {t}
          /\ ct' = [ct EXCEPT ![t].pc = "wait"]
    /\ UNCHANGED <<sm_lock, outsideApp>>

\* A child spawned through AppState exits by itself.
AppChildExit(c) ==
    /\ c \in app_alive
    /\ app_alive' = app_alive \ {c}
    /\ UNCHANGED <<app, sm_lock, ct, outsideApp>>

\* wait() returns once the child has exited; run_process clears its fields,
\* leaves the lock and returns the exit code.
AppState_run_wait(t) ==
    /\ ct[t].pc = "wait"
    /\ t \notin app_alive
    /\ app' = [app EXCEPT !.current_process = "None", !.is_running = FALSE,
                          !.lock = "free"]
    /\ ct' = [ct EXCEPT ![t] = Left(t, "code")]
    /\ UNCHANGED <<app_alive, sm_lock, outsideApp>>

\* What a thread does once it has the lock, up to the return of the call.
AppBody(t) ==
    \/ AppState_set_main_app_running(t)
    \/ AppState_initialize(t)
    \/ AppState_stop_process(t)
    \/ AppState_get_state(t)
    \/ AppState_run_process(t)
    \/ AppState_run_wait(t)

AppNext ==
    \E t \in Threads :
        \/ \E m \in AppMethods, arg \in BOOLEAN : AppCall(t, m, arg)
        \/ AppAcquire(t)
        \/ AppBody(t)
        \/ AppChildExit(t)

AppInit == Init /\ OneInstallation

AppSpec == AppInit /\ [][AppNext]_vars

\* Every thread keeps running, every child exits, and a thread that waits
\* for a lock that is free again and again gets it.
AppFair ==
    \A t \in Threads :
        /\ WF_vars(AppBody(t))
        /\ WF_vars(AppChildExit(t))
        /\ SF_vars(AppAcquire(t))

AppLiveSpec == AppSpec /\ AppFair

\* C33: every call AppState.set_main_app_running(False) returns, and when
\* it has returned main_app_running and is_running are false and no process
\* is tracked.
C33_SetNotRunningTerminates ==
    \A t \in Threads :
        (/\ ct[t].stack # <<>> /\ ct[t].stack[1].m = "set_main_app_running"
         /\ ~ct[t].arg)
        ~> (/\ ct[t].pc = "done"
            /\ ~app.main_app_running /\ ~app.is_running
            /\ app.current_process = "None")

(***************************************************************************)
(* OrderSpec: threads calling the StateManager and the ProcessManager, one *)
(* lock operation at a time.  sm_lock is StateManager._lock, lock is       *)
(* ProcessManager._lock; set_main_app_running(False) and                   *)
(* StateManager.get_state call the ProcessManager from inside their with   *)
(* block.  The clock stands still.  A thread's pc is as in AppSpec.        *)
(***************************************************************************)
PMMethods == {"run_process", "stop_process", "get_state"}

SMMethods == {"set_main_app_running", "is_main_app_running",
              "state_manager.get_state", "create_initial_state_backup",
              "restore_initial_state"}

smFields == <<main_app_running, initial_state_backup_dir, tree, snaps>>

pmFields == <<is_running, current_process, alive>>

outsideOrder == <<engineVars, concVars, dictVars, pureVars, app, app_alive,
                  pt, bkps, clock, slast>>

\* A thread that is in no call calls a method of one of the two objects.
OrderCall(t, m, arg) ==
    /\ ct[t].pc \in {"idle", "done"}
    /\ arg => m = "set_main_app_running"
    /\ ct' = [ct EXCEPT ![t] = [stack |-> <<[m |-> m, i |-> 0]>>,
                                arg |-> arg, pc |-> "acquire",
                                ret |-> "none"]]
    /\ UNCHANGED <<sm_lock, lock, pmFields, smFields, outsideOrder>>

\* with self._lock of the object whose method is entered.
OrderAcquire(t) ==
    /\ ct[t].pc = "acquire"
    /\ IF Top(t).m \in PMMethods
       THEN lock = "free" /\ lock' = t /\ sm_lock' = sm_lock
       ELSE sm_lock = "free" /\ sm_lock' = t /\ lock' = lock
    /\ ct' = [ct EXCEPT ![t].pc = "body"]
    /\ UNCHANGED <<pmFields, smFields, outsideOrder>>

\* StateManager.set_main_app_running: the assignment and, for running =
\* False, process_manager.stop_process() inside the with block.
SM_set_main_app_running(t) ==
    /\ InBody(t, "set_main_app_running")
    /\ IF Top(t).i = 0 /\ ~ct[t].arg
       THEN /\ main_app_running' = FALSE
            /\ ct' = [ct EXCEPT ![t] = Entered(t, "stop_process")]
            /\ sm_lock' = sm_lock
       ELSE /\ main_app_running' = IF Top(t).i = 0 THEN TRUE
                                   ELSE main_app_running
            /\ ct' = [ct EXCEPT ![t] = Left(t, "None")]
            /\ sm_lock' = "free"
    /\ UNCHANGED <<initial_state_backup_dir, tree, snaps>>
    /\ UNCHANGED <<lock, pmFields, outsideOrder>>

\* StateManager.is_main_app_running.
SM_is_main_app_running(t) ==
    /\ InBody(t, "is_main_app_running")
    /\ ct' = [ct EXCEPT ![t] = Left(t, IF main_app_running THEN "True"
                                       ELSE "False")]
    /\ sm_lock' = "free"
    /\ UNCHANGED <<lock, pmFields, smFields, outsideOrder>>

\* StateManager.get_state: process_manager.get_state() inside the with
\* block, then the dict.
SM_get_state(t) ==
    /\ InBody(t, "state_manager.get_state")
    /\ IF Top(t).i = 0
       THEN /\ ct' = [ct EXCEPT ![t] = Entered(t, "get_state")]
            /\ sm_lock' = sm_lock
       ELSE /\ ct' = [ct EXCEPT ![t] = Left(t, "state")]
            /\ sm_lock' = "free"
    /\ UNCHANGED <<lock, pmFields, smFields, outsideOrder>>

\* StateManager.create_initial_state_backup.
SM_create_initial_state_backup(t) ==
    /\ InBody(t, "create_initial_state_backup")
    /\ \E flt \in CopyFaults : \E r \in {copytree(tree, snaps[clock], flt)} :
          /\ flt # "none" => r # copytree(tree, snaps[clock], "none")
          /\ snaps' = [snaps EXCEPT ![clock] = r.dst]
          /\ initial_state_backup_dir' = RecordedSnapshot(r)
          /\ ct' = [ct EXCEPT ![t] = Left(t, IF r.ok THEN "success"
                                             ELSE "failure")]
    /\ sm_lock' = "free"
    /\ UNCHANGED <<main_app_running, tree>>
    /\ UNCHANGED <<lock, pmFields, outsideOrder>>

\* StateManager.restore_initial_state.
SM_restore_initial_state(t) ==
    /\ InBody(t, "restore_initial_state")
    /\ \E flt \in CopyFaults : \E r \in {RestoreInitial(flt)} :
          /\ flt # "none" => r # RestoreInitial("none")
          /\ tree' = r.dst
          /\ ct' = [ct EXCEPT ![t] = Left(t, IF r.ok THEN "success"
                                             ELSE "failure")]
    /\ sm_lock' = "free"
    /\ UNCHANGED <<main_app_running, initial_state_backup_dir, snaps>>
    /\ UNCHANGED <<lock, pmFields, outsideOrder>>

\* A variant of ProcessManager.stop_process that asks the StateManager
\* whether the application runs before it stops the child.
PM_stop_process_AsksStateManager(t) ==
    /\ InBody(t, "stop_process")
    /\ IF Top(t).i = 0
       THEN /\ ct' = [ct EXCEPT ![t] = Entered(t, "is_main_app_running")]
            /\ UNCHANGED <<lock, pmFields>>
       ELSE /\ alive' = IF current_process # "None"
                        THEN alive \ {current_process} ELSE alive
            /\ current_process' = "None"
            /\ is_running' = FALSE
            /\ lock' = "free"
            /\ ct' = [ct EXCEPT ![t] = Left(t, "True")]
    /\ UNCHANGED <<sm_lock, smFields, outsideOrder>>

\* ProcessManager.stop_process: terminate, wait(timeout=5), kill on timeout.
PM_stop_process(t) ==
    /\ InBody(t, "stop_process")
    /\ alive' = IF current_process # "None" THEN alive \ {current_process}
                ELSE alive
    /\ current_process' = "None"
    /\ is_running' = FALSE
    /\ lock' = "free"
    /\ ct' = [ct EXCEPT ![t] = Left(t, "True")]
    /\ UNCHANGED <<sm_lock, smFields, outsideOrder>>

\* ProcessManager.get_state: poll() the tracked child, report the fields.
PM_get_state(t) ==
    /\ InBody(t, "get_state")
    /\ \E gone \in {current_process # "None" /\ current_process \notin alive} :
          /\ is_running' = IF gone THEN FALSE ELSE is_running
          /\ current_process' = IF gone THEN "None" ELSE current_process
          /\ ct' = [ct EXCEPT ![t] =
                       Left(t, IF is_running' THEN "running"
                               ELSE "not running")]
    /\ lock' = "free"
    /\ UNCHANGED <<alive, sm_lock, smFields, outsideOrder>>

\* ProcessManager.run_process up to wait(): the early return, Popen
\* raising, or the spawn, after which the lock stays held.
PM_run_process(t) ==
    /\ InBody(t, "run_process")
    /\ \/ /\ is_running
          /\ lock' = "free"
          /\ ct' = [ct EXCEPT ![t] = Left(t, "None")]
          /\ UNCHANGED pmFields
       \/ /\ ~is_running
          /\ current_process' = "None"
          /\ is_running' = FALSE
          /\ lock' = "free"
          /\ ct' = [ct EXCEPT ![t] = Left(t, "raised")]
          /\ UNCHANGED alive
       \/ /\ ~is_running
          /\ current_process' = t
          /\ is_running' = TRUE
          /\ alive' = alive \cup {t}
          /\ lock' = lock
          /\ ct' = [ct EXCEPT ![t].pc = "wait"]
    /\ UNCHANGED <<sm_lock, smFields, outsideOrder>>

\* wait() returns once the child has exited; run_process clears its fields,
\* leaves the lock and returns the exit code.
PM_run_wait(t) ==
    /\ ct[t].pc = "wait"
    /\ t \notin alive
    /\ current_process' = "None"
    /\ is_running' = FALSE
    /\ lock' = "free"
    /\ ct' = [ct EXCEPT ![t] = Left(t, "code")]
    /\ UNCHANGED <<alive, sm_lock, smFields, outsideOrder>>

\* What a thread does once it has the lock, up to the return of the call.
OrderBody(t) ==
    \/ SM_set_main_app_running(t)
    \/ SM_is_main_app_running(t)
    \/ SM_get_state(t)
    \/ SM_create_initial_state_backup(t)
    \/ SM_restore_initial_state(t)
    \/ PM_stop_process(t)
    \/ PM_get_state(t)
    \/ PM_run_process(t)
    \/ PM_run_wait(t)

OrderNext ==
    \E t \in Threads :
        \/ \E m \in SMMethods \cup PMMethods, arg \in BOOLEAN :
              OrderCall(t, m, arg)
        \/ OrderAcquire(t)
        \/ OrderBody(t)
        \/ ChildExit(t)

OrderInit == Init /\ OneInstallation

OrderSpec == OrderInit /\ [][OrderNext]_vars

\* Every thread keeps running, every child exits, and a thread that waits
\* for a lock that is free again and again gets it.
OrderFair ==
    \A t \in Threads :
        /\ WF_vars(OrderBody(t))
        /\ WF_vars(ChildExit(t))
        /\ SF_vars(OrderAcquire(t))

OrderLiveSpec == OrderSpec /\ OrderFair

\* C35: no thread that holds the ProcessManager lock asks for the
\* StateManager lock, and every call of a StateManager or ProcessManager
\* method that has been made returns.
C35_NoDeadlockBetweenManagers ==
    /\ [](\A t \in Threads :
             ~(/\ ct[t].pc = "acquire" /\ Top(t).m \in SMMethods
               /\ lock = t))
    /\ \A t \in Threads : (ct[t].stack # <<>>) ~> (ct[t].pc = "done")

\* A thread inside set_main_app_running(False) holds the StateManager lock
\* and waits for the ProcessManager lock, which another thread holds while
\* its child runs.
C35_WaitsForChildReached ==
    \E t \in Threads, u \in Threads :
        /\ t # u
        /\ ct[t].stack # <<>>
        /\ ct[t].stack[1].m = "set_main_app_running"
        /\ ct[t].pc = "acquire" /\ sm_lock = t
        /\ lock = u /\ ct[u].pc = "wait" /\ u \in alive

====
